---- MODULE Spec2Model ----
(***************************************************************************)
(* A model of the peer engine of chronly/jsonrpc2: the Client of           *)
(* src/error.go (Invoke, Batch, the processMessages demultiplexer and its  *)
(* responseWriter) over the transport of src/transport.go.                 *)
(*                                                                         *)
(* The peer on the other side of the stream is the environment: whenever   *)
(* the demultiplexer reads, the peer may have sent any frame.  A frame's   *)
(* objects are drawn when the Objects loop reaches them; the loop handles  *)
(* them in order and never looks ahead, so this gives the same behaviours  *)
(* as drawing the whole frame in ReadMessage.                              *)
(***************************************************************************)
EXTENDS Integers, Sequences, FiniteSets, TLC

\* ------------------------------------------------------------------ bounds

\* ReadMessage calls the demultiplexer makes in one run.
MaxFrames == 2
\* Objects in one inbound frame.
MaxObjs == 2
\* Invoke calls queued in the Batch.
MaxBatch == 2
\* Client.Close calls made by the user.
MaxCloses == 1
\* SendMessage calls one task makes, and the pieces a frame goes out in.
MaxSends == 2
MaxChunks == 2
\* Calls one task makes on a ResponseWriter.
MaxWrites == 2
\* Frames the peer writes on the stream that ReadMessage reads, and the bytes
\* of one frame.
MaxPeerFrames == 3
MaxFrameBytes == 2

\* ------------------------------------------------------- program constants

ErrorInvalidRequest == -32600
ErrorMethodNotFound == -32601
ErrorInternal == -32603

\* ------------------------------------------------------------- id (values)

idTypeNull == "idTypeNull"
idTypeString == "idTypeString"
idTypeNumber == "idTypeNumber"

\* strconv.FormatInt(n, 10) and strconv.ParseInt(s, 10, 64) on the texts the
\* model uses.  ParseInt returns 0 (with an error the caller drops) for a text
\* that is no decimal integer.
DecimalText ==
    <<"1", "2", "3", "4", "5", "6", "7", "8", "9", "10", "11", "12", "13", "14", "15", "16">>

FormatInt(n) == DecimalText[n]

ParseInt(s) ==
    IF \E n \in 1..Len(DecimalText) : DecimalText[n] = s
    THEN CHOOSE n \in 1..Len(DecimalText) : DecimalText[n] = s
    ELSE 0

newUndefinedID == [value |-> "", ty |-> idTypeNull, defined |-> FALSE]

newNullID == [value |-> "", ty |-> idTypeNull, defined |-> TRUE]

newStringID(value) == [value |-> value, ty |-> idTypeString, defined |-> TRUE]

newNumberID(value) == [value |-> FormatInt(value), ty |-> idTypeNumber, defined |-> TRUE]

IsUndefined(v) == ~v.defined
IsNull(v) == v.ty = idTypeNull
IsString(v) == v.ty = idTypeString
IsNumber(v) == v.ty = idTypeNumber

\* The demultiplexer's test `msg.Response.ID == nil`: the id is absent or null.
IDIsNil(v) == IsUndefined(v) \/ v.ty = idTypeNull

\* convertID: -1 for a nil id, otherwise the id's text parsed as an integer.
convertID(in) == IF IDIsNil(in) THEN -1 ELSE ParseInt(in.value)

\* ------------------------------------------------------- transport values

\* json.RawMessage: the Go nil slice, the empty non-nil slice, or JSON text.
NilRaw == "<nil>"
EmptyRaw == ""

\* The "sum" handler of the repository's tests: it adds up the numbers of its
\* params and writes the sum, which json.Marshal encodes in decimal.
SumParams == <<3, 5, 7>>

RECURSIVE Sum(_)
Sum(nums) == IF nums = <<>> THEN 0 ELSE Head(nums) + Sum(Tail(nums))

SumHandler(nums) == FormatInt(Sum(nums))

\* json.Marshal(params) of the call the tests make: Invoke(ctx, "sum", []int{3, 5, 7}).
SumParamsText == "[3,5,7]"

\* The results a peer sends.
Results == {SumHandler(SumParams)}

NilError == [isNil |-> TRUE, Code |-> 0, Message |-> "", Data |-> NilRaw]
MkError(code, message) ==
    [isNil |-> FALSE, Code |-> code, Message |-> message, Data |-> NilRaw]

NilRequest ==
    [isNil |-> TRUE, Notification |-> FALSE, ID |-> newUndefinedID, Method |-> "",
     Params |-> NilRaw]
NilResponse == [isNil |-> TRUE, ID |-> newUndefinedID, Result |-> NilRaw, Error |-> NilError]

txRequest(notification, id, method, params) ==
    [isNil |-> FALSE, Notification |-> notification, ID |-> id, Method |-> method,
     Params |-> params]

txResponse(id, result, error) ==
    [isNil |-> FALSE, ID |-> id, Result |-> result, Error |-> error]

RequestObject(r) == [Request |-> r, Response |-> NilResponse]
ResponseObject(r) == [Request |-> NilRequest, Response |-> r]
NoObject == [Request |-> NilRequest, Response |-> NilResponse]

txMessage(batched, objects) == [Batched |-> batched, Objects |-> objects]

\* json.Marshal of a json.RawMessage field: nil marshals as null, JSON text as
\* itself, and the empty non-nil slice is no JSON value, which Marshal rejects.
RawMessageMarshalOK(raw) == raw # EmptyRaw

\* txResponse.MarshalJSON succeeds.
txResponseMarshalOK(r) ==
    /\ ~(r.Result \notin {NilRaw, EmptyRaw} /\ ~r.Error.isNil)
    /\ ~(r.Result = NilRaw /\ r.Error.isNil)
    /\ (r.Error.isNil => RawMessageMarshalOK(r.Result))

\* txObject.MarshalJSON succeeds.
txObjectMarshalOK(o) ==
    /\ ~(~o.Request.isNil /\ ~o.Response.isNil)
    /\ ~(o.Request.isNil /\ o.Response.isNil)
    /\ (~o.Response.isNil => txResponseMarshalOK(o.Response))

\* txMessage.MarshalJSON succeeds.
txMessageMarshalOK(m) ==
    /\ (~m.Batched => Len(m.Objects) = 1)
    /\ \A i \in 1..Len(m.Objects) : txObjectMarshalOK(m.Objects[i])

\* ------------------------------------------------------------- JSON values

\* A JSON text, by the value it denotes.  The members of an object are a
\* function from its keys to their values.
JNull == [kind |-> "null"]
JTrue == [kind |-> "true"]
JNumber(text) == [kind |-> "number", text |-> text]
JString(s) == [kind |-> "string", text |-> s]
JArray(items) == [kind |-> "array", items |-> items]
JObject(members) == [kind |-> "object", members |-> members]

NoMembers == [k \in {} |-> JNull]

\* What a MarshalJSON or an UnmarshalJSON returns: the value, or an error.
Ok(v) == [err |-> FALSE, val |-> v]
Fail == [err |-> TRUE]

\* The JSON values the model keeps in a json.RawMessage, with their bytes.
RawTable ==
    { <<JNull, "null">>,
      <<JNumber("15"), "15">>,
      <<JArray(<<JNumber("3")>>), "[3]">>,
      <<JArray(<<JNumber("3"), JNumber("5"), JNumber("7")>>), "[3,5,7]">>,
      <<JObject(NoMembers), "{}">> }

RawTexts == {p[2] : p \in RawTable}

\* json.RawMessage.UnmarshalJSON: the bytes of the value, those of null too.
RawMessageUnmarshalJSON(v) == (CHOOSE p \in RawTable : p[1] = v)[2]

\* json.RawMessage.MarshalJSON: null for the nil slice, otherwise the bytes,
\* which json.Marshal rejects when they are no JSON value.
RawMessageMarshalJSON(raw) ==
    IF raw = NilRaw THEN Ok(JNull)
    ELSE IF raw \in RawTexts THEN Ok((CHOOSE p \in RawTable : p[2] = raw)[1])
    ELSE Fail

\* The decimal text of the ints that json.Marshal writes and json.Unmarshal
\* reads into an int: those of DecimalText and the error codes.
IntTable ==
    {<<n, DecimalText[n]>> : n \in 1..Len(DecimalText)}
        \cup { <<0, "0">>, <<ErrorInvalidRequest, "-32600">>,
               <<ErrorMethodNotFound, "-32601">>, <<ErrorInternal, "-32603">> }

IsIntText(text) == \E p \in IntTable : p[2] = text
Atoi(text) == (CHOOSE p \in IntTable : p[2] = text)[1]
Itoa(n) == (CHOOSE p \in IntTable : p[1] = n)[2]

\* A string field of a struct that json decodes from the members o: absent or
\* null leaves "", a string sets it, any other value is an error.
StringField(o, key) ==
    IF key \notin DOMAIN o \/ o[key].kind = "null" THEN Ok("")
    ELSE IF o[key].kind = "string" THEN Ok(o[key].text)
    ELSE Fail

\* A json.RawMessage field: absent leaves nil.
RawField(o, key) ==
    IF key \in DOMAIN o THEN RawMessageUnmarshalJSON(o[key]) ELSE NilRaw

\* A decoder that takes any key.
AnyFields(o, fields) == TRUE

\* Decoder.DisallowUnknownFields: every key of the object is a field.
KnownFields(o, fields) == DOMAIN o \subseteq fields

\* --------------------------------------------------------------- id (codec)

\* id.UnmarshalJSON: an *int64 first (null, integers), then a string.
idUnmarshalJSON(v) ==
    IF v.kind = "null" THEN Ok(newNullID)
    ELSE IF v.kind = "number" /\ IsIntText(v.text)
         THEN Ok(newNumberID(Atoi(v.text)))
    ELSE IF v.kind = "string" THEN Ok(newStringID(v.text))
    ELSE Fail

\* An id that is always written as a JSON string.
idMarshalJSONAsString(v) == Ok(JString(v.value))

\* id.MarshalJSON, by v.ty; the zero id has ty idTypeNull.
idMarshalJSON(v) ==
    IF v.ty = idTypeNumber
    THEN IF IsIntText(v.value) THEN Ok(JNumber(Itoa(Atoi(v.value)))) ELSE Fail
    ELSE IF v.ty = idTypeString THEN Ok(JString(v.value))
    ELSE Ok(JNull)

\* ------------------------------------------------------------ Error (codec)

\* json.Marshal of an *Error: code, message, and data unless it is empty.
ErrorMarshalJSON(e) ==
    LET base == ("code" :> JNumber(Itoa(e.Code))) @@ ("message" :> JString(e.Message))
    IN  IF e.Data \in {NilRaw, EmptyRaw} THEN Ok(JObject(base))
        ELSE IF RawMessageMarshalJSON(e.Data).err THEN Fail
        ELSE Ok(JObject(base @@ ("data" :> RawMessageMarshalJSON(e.Data).val)))

\* json decoding into an *Error: null leaves the pointer nil.
ErrorUnmarshalJSON(v) ==
    IF v.kind = "null" THEN Ok(NilError)
    ELSE IF v.kind # "object" THEN Fail
    ELSE LET o == v.members
             message == StringField(o, "message")
             codeOK == \/ "code" \notin DOMAIN o
                       \/ o["code"].kind = "null"
                       \/ o["code"].kind = "number" /\ IsIntText(o["code"].text)
             code == IF "code" \in DOMAIN o /\ o["code"].kind = "number"
                     THEN Atoi(o["code"].text) ELSE 0
         IN  IF ~KnownFields(o, {"code", "message", "data"}) \/ ~codeOK \/ message.err
             THEN Fail
             ELSE Ok([isNil |-> FALSE, Code |-> code, Message |-> message.val,
                      Data |-> RawField(o, "data")])

\* -------------------------------------------------------- txRequest (codec)

\* txRequest.UnmarshalJSON.  json null decodes into the plain struct without
\* a change, and its empty Version is refused.
txRequestUnmarshalJSON(v) ==
    IF v.kind # "object" THEN Fail
    ELSE LET o == v.members
             Version == StringField(o, "jsonrpc")
             Method == StringField(o, "method")
             ID == IF "id" \in DOMAIN o THEN idUnmarshalJSON(o["id"])
                   ELSE Ok(newUndefinedID)
         IN  IF \/ ~KnownFields(o, {"jsonrpc", "method", "params", "id"})
                \/ Version.err \/ Method.err \/ ID.err
             THEN Fail
             ELSE IF Version.val # "2.0" THEN Fail
             ELSE Ok(txRequest(IsUndefined(ID.val), ID.val, Method.val,
                               RawField(o, "params")))

\* txRequest.MarshalJSON: the notification struct has no id member.
txRequestMarshalJSON(r) ==
    LET Params == RawMessageMarshalJSON(r.Params)
        ID == idMarshalJSON(r.ID)
        n == ("jsonrpc" :> JString("2.0")) @@ ("method" :> JString(r.Method))
    IN  IF Params.err THEN Fail
        ELSE IF r.Notification THEN Ok(JObject(n @@ ("params" :> Params.val)))
        ELSE IF ID.err THEN Fail
        ELSE Ok(JObject(n @@ ("params" :> Params.val) @@ ("id" :> ID.val)))

\* ------------------------------------------------------- txResponse (codec)

\* A check that lets every combination through.
ResultErrorAny(Result, Error) == TRUE

\* The check both txResponse.UnmarshalJSON and txResponse.MarshalJSON make.
ResultErrorOK(Result, Error) ==
    /\ ~(Result \notin {NilRaw, EmptyRaw} /\ ~Error.isNil)
    /\ ~(Result = NilRaw /\ Error.isNil)

\* txResponse.UnmarshalJSON.
txResponseUnmarshalJSON(v) ==
    IF v.kind # "object" THEN Fail
    ELSE LET o == v.members
             Version == StringField(o, "jsonrpc")
             Error == IF "error" \in DOMAIN o THEN ErrorUnmarshalJSON(o["error"])
                      ELSE Ok(NilError)
             ID == IF "id" \in DOMAIN o THEN idUnmarshalJSON(o["id"])
                   ELSE Ok(newUndefinedID)
         IN  IF \/ ~KnownFields(o, {"jsonrpc", "result", "error", "id"})
                \/ Version.err \/ Error.err \/ ID.err
             THEN Fail
             ELSE IF Version.val # "2.0" THEN Fail
             ELSE IF ~ResultErrorOK(RawField(o, "result"), Error.val) THEN Fail
             ELSE Ok(txResponse(ID.val, RawField(o, "result"), Error.val))

\* An id member that is written for the undefined id as well.
IDMemberAlways(v) == "id" :> idMarshalJSON(v).val

\* `ID *id "id,omitempty"`, p.ID = &r.ID, and nil for the undefined id.
IDMember(v) == IF IsUndefined(v) THEN NoMembers ELSE "id" :> idMarshalJSON(v).val

\* txResponse.MarshalJSON: the result struct when r.Error is nil, the error
\* struct otherwise.
txResponseMarshalJSON(r) ==
    LET Result == RawMessageMarshalJSON(r.Result)
        Error == ErrorMarshalJSON(r.Error)
        ID == idMarshalJSON(r.ID)
        version == "jsonrpc" :> JString("2.0")
    IN  IF ~ResultErrorOK(r.Result, r.Error) THEN Fail
        ELSE IF ~IsUndefined(r.ID) /\ ID.err THEN Fail
        ELSE IF r.Error.isNil
             THEN IF Result.err THEN Fail
                  ELSE Ok(JObject(version @@ ("result" :> Result.val) @@ IDMember(r.ID)))
             ELSE IF Error.err THEN Fail
                  ELSE Ok(JObject(version @@ ("error" :> Error.val) @@ IDMember(r.ID)))

\* --------------------------------------------- txObject, txMessage (codec)

\* A nil *txObject, which a null element of a batch decodes to.
NilObject == [isNil |-> TRUE, Request |-> NilRequest, Response |-> NilResponse]

\* txObject.UnmarshalJSON: the request form first, then the response form.
txObjectUnmarshalJSON(v) ==
    IF ~txRequestUnmarshalJSON(v).err
    THEN Ok(RequestObject(txRequestUnmarshalJSON(v).val))
    ELSE IF ~txResponseUnmarshalJSON(v).err
         THEN Ok(ResponseObject(txResponseUnmarshalJSON(v).val))
         ELSE Fail

\* txObject.MarshalJSON.
txObjectMarshalJSON(o) ==
    IF ~o.Request.isNil /\ ~o.Response.isNil THEN Fail
    ELSE IF o.Request.isNil /\ o.Response.isNil THEN Fail
    ELSE IF ~o.Request.isNil THEN txRequestMarshalJSON(o.Request)
    ELSE txResponseMarshalJSON(o.Response)

\* json decoding of one element of a []*txObject: null leaves the pointer nil.
ElementUnmarshalJSON(v) ==
    IF v.kind = "null" THEN Ok(NilObject) ELSE txObjectUnmarshalJSON(v)

\* json.Marshal of one element of a []*txObject.
ElementMarshalJSON(o) ==
    IF o = NilObject THEN Ok(JNull) ELSE txObjectMarshalJSON(o)

\* txMessage.UnmarshalJSON: the non-batched form first, then []*txObject, into
\* which null decodes as the nil slice and an array element by element.
txMessageUnmarshalJSON(v) ==
    IF ~txObjectUnmarshalJSON(v).err
    THEN Ok(txMessage(FALSE, <<txObjectUnmarshalJSON(v).val>>))
    ELSE IF v.kind = "null" THEN Ok(txMessage(TRUE, <<>>))
    ELSE IF v.kind # "array" THEN Fail
    ELSE IF \E i \in 1..Len(v.items) : ElementUnmarshalJSON(v.items[i]).err THEN Fail
    ELSE Ok(txMessage(TRUE, [i \in 1..Len(v.items) |->
                                ElementUnmarshalJSON(v.items[i]).val]))

\* txMessage.MarshalJSON.
txMessageMarshalJSON(m) ==
    IF m.Batched
    THEN IF \E i \in 1..Len(m.Objects) : ElementMarshalJSON(m.Objects[i]).err THEN Fail
         ELSE Ok(JArray([i \in 1..Len(m.Objects) |-> ElementMarshalJSON(m.Objects[i]).val]))
    ELSE IF Len(m.Objects) # 1 THEN Fail
    ELSE ElementMarshalJSON(m.Objects[1])

\* ------------------------------------------------------------------ state

\* User tasks that each call Client.Invoke once; "h" is the Invoke a handler
\* makes on the Client it is serving (Request.Client); "b" owns the Batch.
Callers == {"c1", "c2"}
HandlerTask == "h"
BatchTask == "b"
Tasks == Callers \cup {HandlerTask}

\* Ids the Client can hand out in one run.
NumIDs == Cardinality(Tasks) + MaxBatch

\* What the peer may send.
Methods == {"sum", "ping"}

\* The methods the server's ServeMux or Router has a route for.
Routes == {"sum"}

\* fmt.Errorf("method %s not found", r.Method).Error()
NotFoundText(method) ==
    CASE method = "sum" -> "method sum not found"
      [] method = "ping" -> "method ping not found"
RequestIDs == {newUndefinedID, newNullID, newNumberID(7)}
ResponseIDs ==
    {newUndefinedID, newNullID, newStringID("x")}
        \cup {newStringID(FormatInt(n)) : n \in 1..NumIDs}
PeerErrors == {[MkError(ErrorInternal, "boom") EXCEPT !.Data = "[3]"]}
PeerResponses ==
    {txResponse(id, r, NilError) : id \in ResponseIDs, r \in Results}
        \cup {txResponse(id, NilRaw, e) : id \in ResponseIDs, e \in PeerErrors}

\* What a handler may do with its ResponseWriter before it returns.
\* "notfound" is a ServeMux or Router that has no route for the method,
\* "default" is DefaultHandler.
HandlerActs == {"none", "msg", "err", "invoke", "notfound", "default"}

VARIABLES
    isCloser,     \* the io.ReadWriter given to NewClient implements io.Closer
    codec,        \* a value or a JSON text, and what encoding/json made of it
    rstream,      \* the inbound byte stream: what the peer wrote, what t.rw still
                  \* holds, the buffer of the json.Decoder of the ReadMessage
                  \* call under way, and what the ReadMessage calls returned
    server,       \* a Server: shutDown, the keys of its listeners and clis maps,
                  \* where each Serve call and each onConn is, the listeners
                  \* that are closed and the Clients that are open
    wmtx,         \* wsReadWriter.writeMtx: the task that holds it, or NoTask
    writes,       \* writes[t]: the Write call task t's SendMessage is in
    wire,         \* what the Write calls have put on the stream, in order
    writer,       \* the responseWriter a handler was given (NoWriter: none yet)
    wcalls,       \* wcalls[t]: the call task t makes on writer, and what its
                  \* earlier calls returned
    rwCloses,     \* Close calls that reached the underlying stream
    closes,       \* Client.Close calls made by the user
    nextID,       \* Client.nextID
    listeners,    \* keys of Client.listeners
    chans,        \* chans[id]: content of the channel made for id (capacity 1)
    calls,        \* calls[t]: the Invoke of task t
    ctx,          \* ctx[t]: the context task t passed is cancelled
    pc,           \* where processMessages is
    batch,        \* the frame ReadMessage returned: Batched, number of objects
    idx,          \* objects of batch already handled
    cur,          \* the object being handled
    lis,          \* the listener processMessages loaded for cur (0: none)
    resp,         \* resp.Objects
    reqs,         \* the requests of batch handled so far, with what the handler did
                  \* and the Batched flag of the frame they came in
    late,         \* ids handed out whose response, in batch, found no listener,
                  \* and -1 (convertID of a nil id) for a response without id
    sent,         \* frames processMessages wrote since its last ReadMessage
    nread,        \* ReadMessage calls so far
    done,         \* Client.done is closed
    doneCloses,   \* close(c.done) calls
    exitCause,    \* why processMessages returned
    bpc,          \* where the Batch's owner is
    bmsg,         \* Batch.msg.Objects
    watchers,     \* keys of Batch.watchers still to be ranged over
    slots,        \* slots[id]: the json.RawMessage Batch.Invoke returned for id
    brecv,        \* brecv[id]: the object Commit received for id
    bkey,         \* the key Range is visiting
    firstError    \* Commit's firstError

rwVars == <<isCloser, codec, rstream, server, wmtx, writes, wire>>
writerVars == <<writer, wcalls>>
engineVars == <<rwVars, writerVars, rwCloses, closes, nextID, listeners, chans, calls, ctx>>
demuxVars == <<pc, batch, idx, cur, lis, resp, reqs, late, sent, nread, done, doneCloses, exitCause>>
batchVars == <<bpc, bmsg, watchers, slots, brecv, bkey, firstError>>
vars == <<engineVars, demuxVars, batchVars>>

\* The tasks that call SendMessage: an Invoke, a Commit and processMessages.
Senders == {"c1", BatchTask, "demux"}
NoTask == "none"
NoWrite == [pc |-> "idle", n |-> 0, k |-> 0]

\* The tasks of a handler that call WriteMessage and WriteError on the
\* ResponseWriter of one request.
WriterTasks == {"w1", "w2"}
NoWriter == [notification |-> FALSE, resp |-> NilResponse, set |-> FALSE]
NoWriterCall == [pc |-> "idle", op |-> "none", body |-> NilRaw, rets |-> <<>>]

NoCall == [pc |-> "idle", msgID |-> 0, resp |-> NoObject, result |-> NilRaw, err |-> NilError]

\* NewClient: nextID starts at 0, no listener, processMessages about to read.
\* No call of encoding/json under way.
NoCodec ==
    [kind |-> "none", from |-> "none", stage |-> "none", val |-> Fail, bytes |-> Fail,
     back |-> Fail, again |-> Fail]

\* Nothing written by the peer, no ReadMessage call made.
NoInput == [wrote |-> 0, rw |-> <<>>, decoding |-> FALSE, buf |-> <<>>, msgs |-> <<>>]

\* The net.Listeners handed to Serve and the connections their peers make.
Listeners == {"l1", "l2"}
Conns == {"k1", "k2"}

\* The zero Server: not shut down, nothing tracked, no Serve call made.
NoServer ==
    [shutDown |-> FALSE, listeners |-> {}, clis |-> {},
     serve |-> [l \in Listeners |-> "idle"], lclosed |-> {},
     conn |-> [k \in Conns |-> "none"], open |-> {}]

EngineInit ==
    /\ isCloser \in BOOLEAN
    /\ rstream = NoInput
    /\ server = NoServer
    /\ wmtx = NoTask
    /\ writes = [t \in Senders |-> NoWrite]
    /\ wire = <<>>
    /\ writer = NoWriter
    /\ wcalls = [t \in WriterTasks |-> NoWriterCall]
    /\ rwCloses = 0
    /\ closes = 0
    /\ nextID = 0
    /\ listeners = {}
    /\ chans = [i \in 1..NumIDs |-> <<>>]
    /\ calls = [t \in Tasks |-> NoCall]
    /\ ctx = [t \in Tasks \cup {BatchTask} |-> FALSE]
    /\ pc = "read"
    /\ batch = [Batched |-> FALSE, n |-> 0]
    /\ idx = 0
    /\ cur = NoObject
    /\ lis = 0
    /\ resp = <<>>
    /\ reqs = <<>>
    /\ late = {}
    /\ sent = <<>>
    /\ nread = 0
    /\ done = FALSE
    /\ doneCloses = 0
    /\ exitCause = "none"
    /\ bpc = "building"
    /\ bmsg = <<>>
    /\ watchers = {}
    /\ slots = [i \in 1..NumIDs |-> NilRaw]
    /\ brecv = [i \in 1..NumIDs |-> NoObject]
    /\ bkey = 0
    /\ firstError = NilError

Init == EngineInit /\ codec = NoCodec

\* ---------------------------------------------------------------- transport

\* The stream was closed on this side: reads and writes on it fail.
StreamClosed == rwCloses > 0

\* transport.SendMessage returns nil: the message marshals and the write works.
SendMessageOK(msg) == txMessageMarshalOK(msg) /\ ~StreamClosed

\* transport.Close: the stream is closed if it is an io.Closer.
transportClose(n) == IF isCloser THEN n + 1 ELSE n

\* The rest of the state, which a Write call leaves alone.
writeFrame == <<isCloser, codec, rstream, server, writerVars, rwCloses, closes, nextID, listeners, chans, calls, ctx,
                demuxVars, batchVars>>

\* A Write that does not take writeMtx.
WriteNoLock(t) ==
    /\ writes[t].pc = "idle"
    /\ writes[t].n < MaxSends
    /\ wmtx' = t
    /\ writes' = [writes EXCEPT ![t] = [pc |-> "writing", n |-> @.n + 1, k |-> 0]]
    /\ UNCHANGED <<wire, writeFrame>>

\* transport.SendMessage: Encode marshals the message and hands the bytes to
\* one rw.Write call, which begins with rw.writeMtx.Lock().
WriteLock(t) ==
    /\ writes[t].pc = "idle"
    /\ writes[t].n < MaxSends
    /\ wmtx = NoTask
    /\ wmtx' = t
    /\ writes' = [writes EXCEPT ![t] = [pc |-> "writing", n |-> @.n + 1, k |-> 0]]
    /\ UNCHANGED <<wire, writeFrame>>

\* NextWriter and w.Write(p): the next piece of the frame goes on the stream.
WriteChunk(t) ==
    /\ writes[t].pc = "writing"
    /\ writes[t].k < MaxChunks
    /\ wire' = Append(wire, [by |-> t, n |-> writes[t].n, k |-> writes[t].k + 1])
    /\ writes' = [writes EXCEPT ![t].k = @ + 1]
    /\ UNCHANGED <<wmtx, writeFrame>>

\* w.Close() and the deferred rw.writeMtx.Unlock(); Write and SendMessage return.
WriteUnlock(t) ==
    /\ writes[t].pc = "writing"
    /\ writes[t].k = MaxChunks
    /\ wmtx' = NoTask
    /\ writes' = [writes EXCEPT ![t].pc = "idle", ![t].k = 0]
    /\ UNCHANGED <<wire, writeFrame>>

\* Client.Close called by a user task.
ClientClose ==
    /\ closes < MaxCloses
    /\ closes' = closes + 1
    /\ rwCloses' = transportClose(rwCloses)
    /\ UNCHANGED <<rwVars, writerVars, nextID, listeners, chans, calls, ctx>>
    /\ UNCHANGED <<demuxVars, batchVars>>

\* ------------------------------------------------------------ Client.Invoke

\* A Delete that is never run (the defer forgotten).
DeleteNothing(l, msgID) == l

\* c.listeners.Delete(msgID), deferred by the function that stored the entry.
Delete(l, msgID) == l \ {msgID}

\* The channels in c.listeners are never closed: once its entry is deleted and
\* its owner has returned, a channel is garbage, with whatever it buffers.
Collect(ch, id) == [ch EXCEPT ![id] = <<>>]

\* Errors that are no JSON-RPC Error object of the peer.
CtxCanceled == MkError(0, "context canceled")
SendFailed == MkError(0, "send failed")
NoResponseBody == MkError(0, "unexpected message: no response body")

\* An Invoke that never looks at the response's Error.
InvokeResultNoError(r) ==
    IF r.Response.isNil THEN <<NilRaw, NoResponseBody>>
    ELSE <<r.Response.Result, NilError>>

\* What Invoke returns for the object it received: <<result, error>>.
InvokeResult(r) ==
    IF r.Response.isNil THEN <<NilRaw, NoResponseBody>>
    ELSE IF ~r.Response.Error.isNil THEN <<NilRaw, r.Response.Error>>
    ELSE <<r.Response.Result, NilError>>

\* A counter that starts over instead of counting on.
IncWrap(n) == (n % 2) + 1

\* atomic.Int64.Inc: adds one and returns the new value, in one atomic step.
Inc(n) == n + 1

\* A Store that does not keep the entry.
StoreNothing(l, msgID) == l

\* c.listeners.Store(msgID, respCh): listeners has an entry under msgID.
Store(l, msgID) == l \cup {msgID}

\* msgID = c.nextID.Inc(); respCh = make(chan, 1); c.listeners.Store(msgID, respCh).
\* The handler's task can call only while processMessages is in its handler.
InvokeRegister(t) ==
    /\ calls[t].pc = "idle"
    /\ t = HandlerTask => pc = "handler"
    /\ nextID' = Inc(nextID)
    /\ listeners' = Store(listeners, Inc(nextID))
    /\ calls' = [calls EXCEPT ![t].pc = "registered", ![t].msgID = Inc(nextID)]
    /\ UNCHANGED <<rwVars, writerVars, rwCloses, closes, chans, ctx>>
    /\ UNCHANGED <<demuxVars, batchVars>>

\* c.tx.SendMessage(request); on an error Invoke returns it, and the deferred
\* c.listeners.Delete(msgID) runs.
InvokeSend(t) ==
    /\ calls[t].pc = "registered"
    /\ LET msg == txMessage(FALSE,
                    <<RequestObject(txRequest(FALSE, newStringID(FormatInt(calls[t].msgID)),
                                              "sum", SumParamsText))>>)
       IN  IF SendMessageOK(msg)
           THEN /\ calls' = [calls EXCEPT ![t].pc = "waiting"]
                /\ UNCHANGED listeners
           ELSE /\ calls' = [calls EXCEPT ![t].pc = "returned", ![t].err = SendFailed]
                /\ listeners' = Delete(listeners, calls[t].msgID)
    /\ UNCHANGED <<rwVars, writerVars, rwCloses, closes, nextID, chans, ctx>>
    /\ UNCHANGED <<demuxVars, batchVars>>

\* select: case resp := <-respCh.
InvokeReceive(t) ==
    /\ calls[t].pc = "waiting"
    /\ chans[calls[t].msgID] # <<>>
    /\ LET r == Head(chans[calls[t].msgID])
       IN  calls' = [calls EXCEPT ![t].pc = "returned",
                                  ![t].resp = r,
                                  ![t].result = InvokeResult(r)[1],
                                  ![t].err = InvokeResult(r)[2]]
    /\ chans' = Collect(chans, calls[t].msgID)
    /\ listeners' = Delete(listeners, calls[t].msgID)
    /\ UNCHANGED <<rwVars, writerVars, rwCloses, closes, nextID, ctx>>
    /\ UNCHANGED <<demuxVars, batchVars>>

\* select: case <-ctx.Done().  When a response is buffered as well, select may
\* take either case.
InvokeCancelled(t) ==
    /\ calls[t].pc = "waiting"
    /\ ctx[t]
    /\ calls' = [calls EXCEPT ![t].pc = "returned", ![t].err = CtxCanceled]
    /\ listeners' = Delete(listeners, calls[t].msgID)
    /\ chans' = Collect(chans, calls[t].msgID)
    /\ UNCHANGED <<rwVars, writerVars, rwCloses, closes, nextID, ctx>>
    /\ UNCHANGED <<demuxVars, batchVars>>

\* The caller's context is cancelled while the caller waits in its select (a
\* context cancelled earlier is first looked at there).
CancelCtx(t) ==
    /\ ~ctx[t]
    /\ IF t = BatchTask THEN bpc = "select" ELSE calls[t].pc = "waiting"
    /\ ctx' = [ctx EXCEPT ![t] = TRUE]
    /\ UNCHANGED <<rwVars, writerVars, rwCloses, closes, nextID, listeners, chans, calls>>
    /\ UNCHANGED <<demuxVars, batchVars>>

\* ----------------------------------------------------------- responseWriter

responseWriter(req) ==
    [notification |-> req.Notification,
     resp |-> txResponse(req.ID, NilRaw, NilError),
     set |-> FALSE]

\* What WriteMessage and WriteError return.
NoErr == "nil"
ErrNotification == "cannot write message for notification"
ErrAlreadySet == "response already set"
ErrMarshal == "json: unsupported type"

\* A msg json.Marshal cannot encode (a channel, a func, a NaN).
Unmarshalable == "<unmarshalable>"

\* A guard without the swap of set.
GuardNoCAS(w) == IF w.notification THEN ErrNotification ELSE NoErr

\* A guard without the test for a notification.
GuardNoNotification(w) == IF w.set THEN ErrAlreadySet ELSE NoErr

\* How WriteMessage and WriteError begin: `if w.notification` returns an
\* error, then `if !w.set.CAS(false, true)` returns an error; NoErr when the
\* call gets past both (and has then swapped set to true).
Guard(w) ==
    IF w.notification THEN ErrNotification
    ELSE IF w.set THEN ErrAlreadySet
    ELSE NoErr

\* The rest of WriteMessage: json.Marshal(msg), whose error is returned, then
\* w.resp.Result = body.
StoreMessage(w, body) ==
    IF body = Unmarshalable THEN w ELSE [w EXCEPT !.resp.Result = body]

\* The rest of WriteError: w.resp.Error = &Error{errCode, err.Error()}.
StoreError(w, errCode, message) == [w EXCEPT !.resp.Error = MkError(errCode, message)]

\* WriteMessage: refused for a notification, refused when set was already
\* swapped to true, otherwise the marshaled msg becomes the result.
WriteMessage(w, body) ==
    IF Guard(w) # NoErr THEN w
    ELSE StoreMessage([w EXCEPT !.set = TRUE], body)

\* WriteError: the same two refusals, otherwise the error is recorded.
WriteError(w, errCode, message) ==
    IF Guard(w) # NoErr THEN w
    ELSE StoreError([w EXCEPT !.set = TRUE], errCode, message)

\* The rest of the state, which a call on the ResponseWriter leaves alone.
writerFrame == <<rwVars, rwCloses, closes, nextID, listeners, chans, calls, ctx,
                 demuxVars, batchVars>>

\* handleRequest makes the responseWriter of a request and hands it to the
\* handler.
WriterNew ==
    /\ writer = NoWriter
    /\ \E id \in RequestIDs, m \in Methods :
        writer' = responseWriter(txRequest(IsUndefined(id), id, m, SumParamsText))
    /\ UNCHANGED <<wcalls, writerFrame>>

\* A task of the handler calls WriteMessage(msg) or WriteError(code, err): the
\* call returns an error at once, or has swapped set and goes on.
WriterEnter(t) ==
    /\ writer # NoWriter
    /\ wcalls[t].pc = "idle"
    /\ Len(wcalls[t].rets) < MaxWrites
    /\ \E op \in {"WriteMessage", "WriteError"}, body \in Results \cup {Unmarshalable} :
        /\ op = "WriteError" => body \in Results
        /\ IF Guard(writer) # NoErr
           THEN /\ wcalls' = [wcalls EXCEPT ![t].rets =
                                Append(@, [op |-> op, err |-> Guard(writer)])]
                /\ UNCHANGED writer
           ELSE /\ wcalls' = [wcalls EXCEPT ![t].pc = "store", ![t].op = op, ![t].body = body]
                /\ writer' = [writer EXCEPT !.set = TRUE]
    /\ UNCHANGED writerFrame

\* The call that swapped set records its result or error and returns.
WriterStore(t) ==
    /\ wcalls[t].pc = "store"
    /\ writer' = IF wcalls[t].op = "WriteMessage"
                 THEN StoreMessage(writer, wcalls[t].body)
                 ELSE StoreError(writer, ErrorInternal, "boom")
    /\ wcalls' = [wcalls EXCEPT
            ![t].pc = "idle", ![t].op = "none", ![t].body = NilRaw,
            ![t].rets = Append(@, [op |-> wcalls[t].op,
                                   err |-> IF wcalls[t].body = Unmarshalable
                                           THEN ErrMarshal ELSE NoErr])]
    /\ UNCHANGED writerFrame

\* A not-found branch that writes nothing.
RouteNotFoundSilent(w, r) == w

\* ServeMux.ServeRPC and Router.ServeRPC when the lookup of r.Method fails.
RouteNotFound(w, r) ==
    IF ~r.Notification
    THEN WriteError(w, ErrorMethodNotFound, NotFoundText(r.Method))
    ELSE w

\* DefaultHandler: the same error, written whatever the request is.
DefaultHandler(w, r) == WriteError(w, ErrorMethodNotFound, NotFoundText(r.Method))

\* The handler, by what it does with its ResponseWriter.
ServeRPC(w, r, act) ==
    CASE act = "none" -> w
      [] act = "msg" -> WriteMessage(w, SumHandler(SumParams))
      [] act = "err" -> WriteError(w, ErrorInternal, "boom")
      [] act = "invoke" -> WriteMessage(w, SumHandler(SumParams))
      [] act = "notfound" -> RouteNotFound(w, r)
      [] act = "default" -> DefaultHandler(w, r)

\* handleRequest: run the handler, default a nil result to the empty slice,
\* return the response (never nil).
handleRequest(req, act) ==
    LET ww == ServeRPC(responseWriter(req), req, act)
    IN  IF ww.resp.Result = NilRaw
        THEN [ww.resp EXCEPT !.Result = EmptyRaw]
        ELSE ww.resp

\* --------------------------------------------------- Client.processMessages

\* A Load that ignores the key and returns the first channel stored.
LoadAny(l, msgID) == IF l = {} THEN 0 ELSE CHOOSE k \in l : \A j \in l : k <= j

\* c.listeners.Load(msgID): the channel stored under msgID, 0 when there is none.
Load(l, msgID) == IF msgID \in l THEN msgID ELSE 0

\* The ids the untyped nil that processMessages passes to SendError can stand
\* for: SendError takes an id, a struct that has no nil; its value without an
\* id is the zero id (undefined), its JSON null is newNullID.
NilIDs == {newUndefinedID, newNullID}

\* transport.SendError(id, err): one non-batched error response.
ErrorMessage(id, err) == txMessage(FALSE, <<ResponseObject(txResponse(id, NilRaw, err))>>)

\* ReadMessage returns an error that is no transportError (EOF, a closed or
\* failed stream): the loop logs it and goes on to close the client.
ReadTerminal ==
    /\ pc = "read"
    /\ nread < MaxFrames \/ StreamClosed
    /\ pc' = "closing"
    /\ nread' = nread + 1
    /\ sent' = <<>>
    /\ reqs' = <<>>
    /\ late' = {}
    /\ UNCHANGED <<batch, idx, cur, lis, resp, done, doneCloses, exitCause>>
    /\ UNCHANGED <<engineVars, batchVars>>

\* A terminal read error after which processMessages returns without c.Close().
DemuxReturn ==
    /\ pc = "closing"
    /\ pc' = "exited"
    /\ done' = TRUE
    /\ doneCloses' = doneCloses + 1
    /\ exitCause' = "read"
    /\ UNCHANGED <<batch, idx, cur, lis, resp, reqs, late, sent, nread>>
    /\ UNCHANGED <<engineVars, batchVars>>

\* _ = c.Close(); return; the deferred close(c.done) runs.
DemuxClose ==
    /\ pc = "closing"
    /\ rwCloses' = transportClose(rwCloses)
    /\ pc' = "exited"
    /\ done' = TRUE
    /\ doneCloses' = doneCloses + 1
    /\ exitCause' = "read"
    /\ UNCHANGED <<batch, idx, cur, lis, resp, reqs, late, sent, nread>>
    /\ UNCHANGED <<rwVars, writerVars, closes, nextID, listeners, chans, calls, ctx>>
    /\ UNCHANGED batchVars

\* ReadMessage returns a transportError (malformed JSON): SendError with
\* ErrorInvalidRequest, its result dropped, and continue.
ReadParseError ==
    /\ pc = "read"
    /\ nread < MaxFrames
    /\ ~StreamClosed
    /\ nread' = nread + 1
    /\ \E id \in NilIDs :
        LET msg == ErrorMessage(id, MkError(ErrorInvalidRequest, "syntax error"))
        IN  sent' = IF SendMessageOK(msg) THEN <<msg>> ELSE <<>>
    /\ reqs' = <<>>
    /\ late' = {}
    /\ UNCHANGED <<pc, batch, idx, cur, lis, resp, done, doneCloses, exitCause>>
    /\ UNCHANGED <<engineVars, batchVars>>

\* Bytes that are no JSON text.
Malformed == [kind |-> "malformed"]

\* Frames of the peer that are no request, response or batch: bytes that are
\* no JSON, an object with an unknown key, with another version, a number, and
\* batches with such an element.
BadFrames ==
    LET call == ("jsonrpc" :> JString("2.0")) @@ ("method" :> JString("sum"))
                    @@ ("id" :> JNumber("7"))
    IN  {Malformed,
         JObject(call @@ ("extra" :> JTrue)),
         JObject(("jsonrpc" :> JString("1.0")) @@ call),
         JNumber("15"),
         JArray(<<JObject(call), JObject(("jsonrpc" :> JString("1.0")) @@ call)>>),
         JArray(<<JObject(call @@ ("extra" :> JTrue))>>),
         JArray(<<JNumber("15")>>)}

\* The error txMessage.UnmarshalJSON returns, by its Go type: the error of
\* json.Unmarshal(bb, &objs), which is a *json.UnmarshalTypeError for bytes
\* that are no array and, for an array, the error of the txObject.UnmarshalJSON
\* of an element, made by fmt.Errorf.
txMessageUnmarshalError(v) ==
    IF ~txMessageUnmarshalJSON(v).err THEN "nil"
    ELSE IF v.kind # "array" THEN "UnmarshalTypeError"
    ELSE "errorString"

\* The error of Decode in ReadMessage: a *json.SyntaxError for bytes that are
\* no JSON, otherwise what txMessage.UnmarshalJSON returns.
DecodeError(f) ==
    IF f = Malformed THEN "SyntaxError" ELSE txMessageUnmarshalError(f)

\* A ReadMessage that wraps every error of Decode.
IsTransportErrorAlways(e) == e # "nil"

\* ReadMessage wraps a *json.SyntaxError and a *json.UnmarshalTypeError in a
\* transportError, and returns any other error as it is.
IsTransportError(e) == e \in {"SyntaxError", "UnmarshalTypeError"}

\* err.Error() of the errors ReadMessage wraps.
ErrorText(e) ==
    CASE e = "SyntaxError" -> "syntax error"
      [] e = "UnmarshalTypeError" -> "json: cannot unmarshal"
      [] OTHER -> "invalid json-rpc 2.0 message"

\* The call of encoding/json that ReadMessage made on the frame f.
Decoded(f) ==
    [kind |-> "message", from |-> "stream", stage |-> "back", val |-> Fail,
     bytes |-> Ok(f), back |-> Fail, again |-> Fail]

\* ReadMessage on a frame that does not parse, and what processMessages does
\* with its error: SendError and continue for a transportError, otherwise
\* the way to c.Close() and return.
ReadInvalid ==
    /\ pc = "read"
    /\ nread < MaxFrames
    /\ ~StreamClosed
    /\ nread' = nread + 1
    /\ \E f \in BadFrames :
        /\ codec' = Decoded(f)
        /\ IF IsTransportError(DecodeError(f))
           THEN /\ \E id \in NilIDs :
                    LET msg == ErrorMessage(id, MkError(ErrorInvalidRequest,
                                                       ErrorText(DecodeError(f))))
                    IN  sent' = IF SendMessageOK(msg) THEN <<msg>> ELSE <<>>
                /\ UNCHANGED pc
           ELSE /\ pc' = "closing"
                /\ sent' = <<>>
    /\ reqs' = <<>>
    /\ late' = {}
    /\ UNCHANGED <<batch, idx, cur, lis, resp, done, doneCloses, exitCause>>
    /\ UNCHANGED <<isCloser, rstream, server, wmtx, writes, wire>>
    /\ UNCHANGED <<writerVars, rwCloses, closes, nextID, listeners, chans, calls, ctx>>
    /\ UNCHANGED batchVars

\* ReadMessage returns a frame: one object, or a batch (which may be empty).
ReadFrame ==
    /\ pc = "read"
    /\ nread < MaxFrames
    /\ ~StreamClosed
    /\ \E batched \in BOOLEAN, n \in 0..MaxObjs :
        /\ ~batched => n = 1
        /\ batch' = [Batched |-> batched, n |-> n]
    /\ nread' = nread + 1
    /\ pc' = "objects"
    /\ idx' = 0
    /\ resp' = <<>>
    /\ reqs' = <<>>
    /\ late' = {}
    /\ sent' = <<>>
    /\ UNCHANGED <<cur, lis, done, doneCloses, exitCause>>
    /\ UNCHANGED <<engineVars, batchVars>>

\* case msg.Request != nil, with a handler that returns without calling Invoke.
HandleRequest ==
    /\ pc = "objects"
    /\ idx < batch.n
    /\ \E id \in RequestIDs, m \in Methods, act \in HandlerActs \ {"invoke"} :
        LET req == txRequest(IsUndefined(id), id, m, SumParamsText)
        IN  /\ (m \in Routes) = (act # "notfound")
            /\ resp' = Append(resp, ResponseObject(handleRequest(req, act)))
            /\ reqs' = Append(reqs, [ID |-> id, Notification |-> req.Notification,
                                     Method |-> m, act |-> act,
                                     Batched |-> batch.Batched])
    /\ idx' = idx + 1
    /\ UNCHANGED <<pc, batch, cur, lis, late, sent, nread, done, doneCloses, exitCause>>
    /\ UNCHANGED <<engineVars, batchVars>>

\* case msg.Request != nil, with a handler that calls Invoke on r.Client:
\* processMessages is inside c.handler.ServeRPC until that Invoke returns.
HandlerEnter ==
    /\ pc = "objects"
    /\ idx < batch.n
    /\ calls[HandlerTask].pc = "idle"
    /\ \E id \in RequestIDs, m \in Routes :
        cur' = RequestObject(txRequest(IsUndefined(id), id, m, SumParamsText))
    /\ pc' = "handler"
    /\ UNCHANGED <<batch, idx, lis, resp, reqs, late, sent, nread, done, doneCloses, exitCause>>
    /\ UNCHANGED <<engineVars, batchVars>>

\* The handler's Invoke returned; the handler writes its result and returns.
HandlerReturn ==
    /\ pc = "handler"
    /\ calls[HandlerTask].pc = "returned"
    /\ resp' = Append(resp, ResponseObject(handleRequest(cur.Request, "invoke")))
    /\ reqs' = Append(reqs, [ID |-> cur.Request.ID,
                             Notification |-> cur.Request.Notification,
                             Method |-> cur.Request.Method,
                             act |-> "invoke", Batched |-> batch.Batched])
    /\ pc' = "objects"
    /\ idx' = idx + 1
    /\ cur' = NoObject
    /\ UNCHANGED <<batch, lis, late, sent, nread, done, doneCloses, exitCause>>
    /\ UNCHANGED <<engineVars, batchVars>>

\* A routing without the test for a nil id, which takes the first listener
\* there is.
RouteResponseAnyID ==
    /\ pc = "objects"
    /\ idx < batch.n
    /\ \E r \in PeerResponses :
        LET msgID == convertID(r.ID)
        IN  IF LoadAny(listeners, msgID) = 0
            THEN /\ idx' = idx + 1
                 /\ late' = IF msgID \in 1..nextID \/ IDIsNil(r.ID)
                            THEN late \cup {msgID} ELSE late
                 /\ UNCHANGED <<pc, cur, lis>>
            ELSE /\ pc' = "deliver"
                 /\ cur' = ResponseObject(r)
                 /\ lis' = LoadAny(listeners, msgID)
                 /\ UNCHANGED <<idx, late>>
    /\ UNCHANGED <<batch, resp, reqs, sent, nread, done, doneCloses, exitCause>>
    /\ UNCHANGED <<engineVars, batchVars>>

\* case msg.Response != nil: a nil id or a missing listener drops the object;
\* otherwise the loop goes on to hand it to the listener's channel.
RouteResponse ==
    /\ pc = "objects"
    /\ idx < batch.n
    /\ \E r \in PeerResponses :
        LET msgID == convertID(r.ID)
        IN  IF IDIsNil(r.ID) \/ Load(listeners, msgID) = 0
            THEN /\ idx' = idx + 1
                 /\ late' = IF msgID \in 1..nextID \/ IDIsNil(r.ID)
                            THEN late \cup {msgID} ELSE late
                 /\ UNCHANGED <<pc, cur, lis>>
            ELSE /\ pc' = "deliver"
                 /\ cur' = ResponseObject(r)
                 /\ lis' = Load(listeners, msgID)
                 /\ UNCHANGED <<idx, late>>
    /\ UNCHANGED <<batch, resp, reqs, sent, nread, done, doneCloses, exitCause>>
    /\ UNCHANGED <<engineVars, batchVars>>

\* A deposit that loses msg: the send is taken, the channel stays empty.
DeliverDrop ==
    /\ pc = "deliver"
    /\ Len(chans[lis]) = 0
    /\ pc' = "objects"
    /\ idx' = idx + 1
    /\ cur' = NoObject
    /\ lis' = 0
    /\ UNCHANGED <<batch, resp, reqs, late, sent, nread, done, doneCloses, exitCause>>
    /\ UNCHANGED <<engineVars, batchVars>>

\* A deposit that puts msg in the place of what the channel holds.
DeliverOverwrite ==
    /\ pc = "deliver"
    /\ chans' = IF lis \in listeners THEN [chans EXCEPT ![lis] = <<cur>>] ELSE chans
    /\ pc' = "objects"
    /\ idx' = idx + 1
    /\ cur' = NoObject
    /\ lis' = 0
    /\ UNCHANGED <<batch, resp, reqs, late, sent, nread, done, doneCloses, exitCause>>
    /\ UNCHANGED <<rwVars, writerVars, rwCloses, closes, nextID, listeners, calls, ctx>>
    /\ UNCHANGED batchVars

\* select: case lis <- msg, the channel has room.  (A channel whose entry was
\* deleted since the Load is garbage after this send.)
Deliver ==
    /\ pc = "deliver"
    /\ Len(chans[lis]) = 0
    /\ chans' = IF lis \in listeners THEN [chans EXCEPT ![lis] = Append(@, cur)] ELSE chans
    /\ pc' = "objects"
    /\ idx' = idx + 1
    /\ cur' = NoObject
    /\ lis' = 0
    /\ UNCHANGED <<batch, resp, reqs, late, sent, nread, done, doneCloses, exitCause>>
    /\ UNCHANGED <<rwVars, writerVars, rwCloses, closes, nextID, listeners, calls, ctx>>
    /\ UNCHANGED batchVars

\* A select without the time.After case: the send waits for room for ever.
TimeAfterNever(full) == FALSE

\* time.After(500 * time.Millisecond) in the select of the deposit: its case
\* is taken when the channel had no room for the whole 500ms.
TimeAfter(full) == full

\* A timeout that also forgets the listener that did not take the message.
DeliverTimeoutForget ==
    /\ pc = "deliver"
    /\ Len(chans[lis]) = 1
    /\ pc' = "objects"
    /\ idx' = idx + 1
    /\ cur' = NoObject
    /\ lis' = 0
    /\ listeners' = Delete(listeners, lis)
    /\ UNCHANGED <<batch, resp, reqs, late, sent, nread, done, doneCloses, exitCause>>
    /\ UNCHANGED <<rwVars, writerVars, rwCloses, closes, nextID, chans, calls, ctx>>
    /\ UNCHANGED batchVars

\* select: case <-time.After(500ms), the channel stayed full: msg is dropped.
DeliverTimeout ==
    /\ pc = "deliver"
    /\ TimeAfter(Len(chans[lis]) = 1)
    /\ pc' = "objects"
    /\ idx' = idx + 1
    /\ cur' = NoObject
    /\ lis' = 0
    /\ UNCHANGED <<batch, resp, reqs, late, sent, nread, done, doneCloses, exitCause>>
    /\ UNCHANGED <<engineVars, batchVars>>

\* After the Objects loop: send resp if it has objects; an error of
\* SendMessage makes processMessages return (the deferred close(c.done) runs).
\* batch and resp are locals of the loop body, gone when it ends.
FrameEnd ==
    /\ pc = "objects"
    /\ idx = batch.n
    /\ LET msg == txMessage(batch.Batched, resp)
       IN  IF Len(resp) > 0 /\ ~SendMessageOK(msg)
           THEN /\ pc' = "exited"
                /\ done' = TRUE
                /\ doneCloses' = doneCloses + 1
                /\ exitCause' = "send"
                /\ UNCHANGED sent
           ELSE /\ pc' = "read"
                /\ sent' = IF Len(resp) > 0 THEN <<msg>> ELSE <<>>
                /\ UNCHANGED <<done, doneCloses, exitCause>>
    /\ batch' = [Batched |-> FALSE, n |-> 0]
    /\ idx' = 0
    /\ resp' = <<>>
    /\ late' = {}
    /\ UNCHANGED <<cur, lis, reqs, nread>>
    /\ UNCHANGED <<engineVars, batchVars>>

\* -------------------------------------------------------------------- Batch

\* Batch.Invoke: a fresh id, an entry in b.watchers (the result to fill in) and
\* in c.listeners (the channel), the request appended to b.msg.
BatchInvoke ==
    /\ bpc = "building"
    /\ Len(bmsg) < MaxBatch
    /\ nextID' = Inc(nextID)
    /\ watchers' = watchers \cup {Inc(nextID)}
    /\ listeners' = Store(listeners, Inc(nextID))
    /\ bmsg' = Append(bmsg, RequestObject(
                txRequest(FALSE, newStringID(FormatInt(Inc(nextID))), "sum", SumParamsText)))
    /\ UNCHANGED <<rwVars, writerVars, rwCloses, closes, chans, calls, ctx>>
    /\ UNCHANGED <<bpc, slots, brecv, bkey, firstError>>
    /\ UNCHANGED demuxVars

\* Batch.Notify: a notification appended to b.msg.
BatchNotify ==
    /\ bpc = "building"
    /\ Len(bmsg) < MaxBatch
    /\ bmsg' = Append(bmsg, RequestObject(txRequest(TRUE, newUndefinedID, "sum", SumParamsText)))
    /\ UNCHANGED <<bpc, watchers, slots, brecv, bkey, firstError>>
    /\ UNCHANGED <<engineVars, demuxVars>>

\* What Commit does to firstError where it meets an error e:
\* `if firstError != nil { firstError = e }`.
RecordError(first, e) == IF ~first.isNil THEN e ELSE first

\* Commit, up to the Range: b.msg.Batched = true; SendMessage(b.msg), whose
\* error Commit returns.
CommitSend ==
    /\ bpc = "building"
    /\ IF SendMessageOK(txMessage(TRUE, bmsg))
       THEN /\ bpc' = IF watchers = {} THEN "done" ELSE "range"
            /\ UNCHANGED firstError
       ELSE /\ bpc' = "done"
            /\ firstError' = SendFailed
    /\ UNCHANGED <<bmsg, watchers, slots, brecv, bkey>>
    /\ UNCHANGED <<engineVars, demuxVars>>

\* b.watchers.Range calls the function for a next key, in no specified order
\* (sync.Map).  A key without listener ends the Range.
CommitVisit ==
    /\ bpc = "range"
    /\ \E key \in watchers :
        IF Load(listeners, key) = 0
        THEN /\ watchers' = watchers \ {key}
             /\ bpc' = "done"
             /\ UNCHANGED bkey
        ELSE /\ bkey' = key
             /\ bpc' = "select"
             /\ UNCHANGED watchers
    /\ UNCHANGED <<bmsg, slots, brecv, firstError>>
    /\ UNCHANGED <<engineVars, demuxVars>>

\* The function's deferred b.cli.listeners.Delete(key), b.watchers.Delete(key),
\* and the Range going on or ending.
CommitNext(w) == IF w = {} THEN "done" ELSE "range"

\* select: case <-ctx.Done().
CommitCancelled ==
    /\ bpc = "select"
    /\ ctx[BatchTask]
    /\ firstError' = RecordError(firstError, CtxCanceled)
    /\ watchers' = watchers \ {bkey}
    /\ listeners' = Delete(listeners, bkey)
    /\ chans' = Collect(chans, bkey)
    /\ bpc' = CommitNext(watchers \ {bkey})
    /\ UNCHANGED <<bmsg, slots, brecv, bkey>>
    /\ UNCHANGED <<rwVars, writerVars, rwCloses, closes, nextID, calls, ctx>>
    /\ UNCHANGED demuxVars

\* What Commit does with the object r it received for a key, as
\* <<the result slot, firstError, the function returned normally>>:
\* `if resp.Response != nil { ...; return true }`, and past it
\* resp.Response.Error dereferences the nil resp.Response.
CommitReceived(r, slot, first) ==
    IF ~r.Response.isNil
    THEN <<slot, RecordError(first, NoResponseBody), TRUE>>
    ELSE <<slot, first, FALSE>>

\* select: case resp := <-ch.
CommitReceive ==
    /\ bpc = "select"
    /\ chans[bkey] # <<>>
    /\ LET r == Head(chans[bkey])
           out == CommitReceived(r, slots[bkey], firstError)
       IN  /\ brecv' = [brecv EXCEPT ![bkey] = r]
           /\ slots' = [slots EXCEPT ![bkey] = out[1]]
           /\ firstError' = out[2]
           /\ bpc' = IF out[3] THEN CommitNext(watchers \ {bkey}) ELSE "panic"
    /\ chans' = Collect(chans, bkey)
    /\ watchers' = watchers \ {bkey}
    /\ listeners' = Delete(listeners, bkey)
    /\ UNCHANGED <<bmsg, bkey>>
    /\ UNCHANGED <<rwVars, writerVars, rwCloses, closes, nextID, calls, ctx>>
    /\ UNCHANGED demuxVars

\* -------------------------------------------------------------------- codec

\* The rest of the state, which encoding/json leaves alone.
codecFrame == <<isCloser, rstream, server, wmtx, writes, wire, writerVars, rwCloses, closes, nextID,
                listeners, chans, calls, ctx, demuxVars, batchVars>>

\* json.Marshal(v) and json.Unmarshal(bb, &v) for the type of v.
MarshalJSON(kind, v) ==
    CASE kind = "id" -> idMarshalJSON(v)
      [] kind = "request" -> txRequestMarshalJSON(v)
      [] kind = "response" -> txResponseMarshalJSON(v)
      [] kind = "object" -> txObjectMarshalJSON(v)
      [] kind = "message" -> txMessageMarshalJSON(v)

UnmarshalJSON(kind, v) ==
    CASE kind = "id" -> idUnmarshalJSON(v)
      [] kind = "request" -> txRequestUnmarshalJSON(v)
      [] kind = "response" -> txResponseUnmarshalJSON(v)
      [] kind = "object" -> txObjectUnmarshalJSON(v)
      [] kind = "message" -> txMessageUnmarshalJSON(v)

\* The sequences over S of length n at most.
SeqsUpTo(S, n) == UNION {[1..k -> S] : k \in 0..n}

\* The values handed to json.Marshal.
CodecIDs ==
    {newUndefinedID, newNullID, newNumberID(7), newStringID("x"), newStringID("7")}
CodecParams == {NilRaw, EmptyRaw, SumParamsText, "{}"}
CodecRequests ==
    {txRequest(n, id, m, p) :
        n \in BOOLEAN, id \in CodecIDs, m \in Methods, p \in CodecParams}
CodecErrors ==
    {NilError, MkError(ErrorInternal, "boom"),
     MkError(ErrorMethodNotFound, NotFoundText("sum"))} \cup PeerErrors
CodecResults == {NilRaw, EmptyRaw, "null"} \cup Results
CodecResponses ==
    {txResponse(id, r, e) : id \in CodecIDs, r \in CodecResults, e \in CodecErrors}
CodecObjects ==
    {NoObject,
     [Request |-> txRequest(TRUE, newUndefinedID, "sum", SumParamsText),
      Response |-> txResponse(newNullID, "15", NilError)]}
        \cup {RequestObject(r) : r \in {q \in CodecRequests : q.Params = SumParamsText}}
        \cup {ResponseObject(r) : r \in {q \in CodecResponses : q.Result # "null"}}
BatchObjects ==
    {RequestObject(txRequest(FALSE, newNumberID(7), "sum", SumParamsText)),
     RequestObject(txRequest(TRUE, newUndefinedID, "sum", SumParamsText)),
     ResponseObject(txResponse(newStringID("7"), "15", NilError)),
     NoObject}
CodecMessages ==
    {txMessage(b, objs) : b \in BOOLEAN, objs \in SeqsUpTo(BatchObjects, MaxObjs)}

\* The JSON texts handed to json.Unmarshal.
IDTexts ==
    {JNull, JNumber("7"), JNumber("1.5"), JString("x"), JString("7"), JTrue,
     JArray(<<>>), JObject(NoMembers)}
ErrorTexts ==
    {JNull,
     JObject(("code" :> JNumber("-32603")) @@ ("message" :> JString("boom"))),
     JObject(("code" :> JNumber("-32603")) @@ ("message" :> JString("boom"))
                @@ ("data" :> JArray(<<JNumber("3")>>)))}
Keys == {"jsonrpc", "method", "params", "id", "result", "error", "extra"}
KeyTexts(key) ==
    CASE key = "jsonrpc" -> {JString("2.0"), JString("1.0")}
      [] key = "method" -> {JString("sum")}
      [] key = "params" -> {JNull, JArray(<<JNumber("3"), JNumber("5"), JNumber("7")>>)}
      [] key = "id" -> {JNull, JNumber("7"), JNumber("1.5"), JString("x"), JTrue}
      [] key = "result" -> {JNull, JNumber("15")}
      [] key = "error" -> ErrorTexts
      [] key = "extra" -> {JTrue}

\* The objects with some of the keys, each with one of its values.
RECURSIVE Members(_)
Members(keys) ==
    IF keys = {} THEN {NoMembers}
    ELSE LET key == CHOOSE k \in keys : TRUE
             rest == Members(keys \ {key})
         IN  rest \cup {(key :> v) @@ f : f \in rest, v \in KeyTexts(key)}

ObjectTexts == {JObject(f) : f \in Members(Keys)} \cup {JNull, JArray(<<>>)}
ElementTexts ==
    {JObject(("jsonrpc" :> JString("2.0")) @@ ("method" :> JString("sum"))
                @@ ("id" :> JNumber("7"))),
     JObject(("jsonrpc" :> JString("2.0")) @@ ("result" :> JNumber("15"))
                @@ ("id" :> JString("7"))),
     JObject(("jsonrpc" :> JString("2.0")) @@ ("method" :> JString("sum"))
                @@ ("result" :> JNumber("15"))),
     JNull}
MessageTexts ==
    ElementTexts \cup {JArray(s) : s \in SeqsUpTo(ElementTexts, MaxObjs)}

CodecInputs ==
    {[kind |-> "id", from |-> "value", stage |-> "value", val |-> Ok(v),
      bytes |-> Fail, back |-> Fail, again |-> Fail] : v \in CodecIDs}
    \cup {[kind |-> "request", from |-> "value", stage |-> "value", val |-> Ok(v),
           bytes |-> Fail, back |-> Fail, again |-> Fail] : v \in CodecRequests}
    \cup {[kind |-> "response", from |-> "value", stage |-> "value", val |-> Ok(v),
           bytes |-> Fail, back |-> Fail, again |-> Fail] : v \in CodecResponses}
    \cup {[kind |-> "object", from |-> "value", stage |-> "value", val |-> Ok(v),
           bytes |-> Fail, back |-> Fail, again |-> Fail] : v \in CodecObjects}
    \cup {[kind |-> "message", from |-> "value", stage |-> "value", val |-> Ok(v),
           bytes |-> Fail, back |-> Fail, again |-> Fail] : v \in CodecMessages}
    \cup {[kind |-> "id", from |-> "bytes", stage |-> "bytes", val |-> Fail,
           bytes |-> Ok(j), back |-> Fail, again |-> Fail] : j \in IDTexts}
    \cup {[kind |-> k, from |-> "bytes", stage |-> "bytes", val |-> Fail,
           bytes |-> Ok(j), back |-> Fail, again |-> Fail] :
                k \in {"request", "response", "object"}, j \in ObjectTexts}
    \cup {[kind |-> "message", from |-> "bytes", stage |-> "bytes", val |-> Fail,
           bytes |-> Ok(j), back |-> Fail, again |-> Fail] : j \in MessageTexts}

\* json.Marshal of the value given, or of the value json.Unmarshal returned.
jsonMarshal ==
    /\ \/ /\ codec.stage = "value"
          /\ codec' = [codec EXCEPT !.stage = "bytes",
                                    !.bytes = MarshalJSON(codec.kind, codec.val.val)]
       \/ /\ codec.stage = "back"
          /\ ~codec.back.err
          /\ codec' = [codec EXCEPT !.stage = "again",
                                    !.again = MarshalJSON(codec.kind, codec.back.val)]
    /\ UNCHANGED codecFrame

\* json.Unmarshal of the bytes given, or of the bytes json.Marshal returned.
jsonUnmarshal ==
    /\ codec.stage = "bytes"
    /\ ~codec.bytes.err
    /\ codec' = [codec EXCEPT !.stage = "back",
                              !.back = UnmarshalJSON(codec.kind, codec.bytes.val)]
    /\ UNCHANGED codecFrame

\* ------------------------------------------------- transport.ReadMessage

\* The rest of the state, which reading the stream leaves alone.
readFrame == <<isCloser, codec, server, wmtx, writes, wire, writerVars, rwCloses, closes, nextID,
               listeners, chans, calls, ctx, demuxVars, batchVars>>

\* The bytes of the k-th frame the peer writes: one top-level JSON value.
FrameBytes(k) == [j \in 1..MaxFrameBytes |-> [f |-> k, b |-> j]]

RECURSIVE FramesBytes(_, _)
\* The bytes of the frames from..to, one after the other.
FramesBytes(from, to) ==
    IF from > to THEN <<>> ELSE FrameBytes(from) \o FramesBytes(from + 1, to)

\* The peer's json.Encoder writes its next frame on the stream.
PeerWrite ==
    /\ rstream.wrote < MaxPeerFrames
    /\ rstream' = [rstream EXCEPT !.wrote = @ + 1,
                                   !.rw = @ \o FrameBytes(rstream.wrote + 1)]
    /\ UNCHANGED readFrame

\* ReadMessage: json.NewDecoder(t.rw), a decoder with an empty buffer.
NewDecoder ==
    /\ ~rstream.decoding
    /\ Len(rstream.msgs) < MaxPeerFrames
    /\ rstream' = [rstream EXCEPT !.decoding = TRUE, !.buf = <<>>]
    /\ UNCHANGED readFrame

\* The decoder's scan of its buffer: "more" while the buffer holds no whole
\* value, the frame whose value it begins with, or "garbage" when the buffer
\* begins inside a frame (a syntax error, or a value no peer wrote).
Scan(buf) ==
    IF buf = <<>> THEN "more"
    ELSE IF buf[1].b # 1 THEN "garbage"
    ELSE IF Len(buf) < MaxFrameBytes THEN "more"
    ELSE "value"

\* A Read that hands the decoder one frame's bytes at most.
ReadSizesOneFrame(rw) ==
    {n \in 1..Len(rw) : \A i \in 2..n : rw[i].f = rw[1].f}

\* dec.refill: one t.rw.Read into the free space of the buffer (512 bytes at
\* least) returns any number of the bytes the stream has, whole frames or not.
ReadSizes(rw) == 1..Len(rw)

\* Decode, as long as the buffer holds no whole value: refill from t.rw.
DecoderRefill ==
    /\ rstream.decoding
    /\ Scan(rstream.buf) = "more"
    /\ \E n \in ReadSizes(rstream.rw) :
        rstream' = [rstream EXCEPT !.buf = @ \o SubSeq(rstream.rw, 1, n),
                                   !.rw = SubSeq(@, n + 1, Len(@))]
    /\ UNCHANGED readFrame

\* Decode returns the first value of the buffer (or its error) and ReadMessage
\* returns; the decoder goes, with the bytes its buffer holds past the value.
DecodeReturn ==
    /\ rstream.decoding
    /\ Scan(rstream.buf) # "more"
    /\ rstream' = [rstream EXCEPT
                    !.decoding = FALSE,
                    !.buf = <<>>,
                    !.msgs = Append(@, IF Scan(rstream.buf) = "value"
                                       THEN rstream.buf[1].f ELSE 0)]
    /\ UNCHANGED readFrame

\* ------------------------------------------------------------------ Server

\* The rest of the state, which the Server leaves alone.
serverFrame == <<isCloser, codec, rstream, wmtx, writes, wire, writerVars, rwCloses, closes,
                 nextID, listeners, chans, calls, ctx, demuxVars, batchVars>>

\* Serve(lis) up to its loop: trackListener(&lis, true) refuses when shutDown
\* is set and Serve returns "server closed" (the deferred lis.Close() runs);
\* otherwise lis is tracked and Serve goes on to Accept.
ServerServe(l) ==
    /\ server.serve[l] = "idle"
    /\ server' = IF server.shutDown
                 THEN [server EXCEPT !.serve[l] = "refused", !.lclosed = @ \cup {l}]
                 ELSE [server EXCEPT !.serve[l] = "serving", !.listeners = @ \cup {l}]
    /\ UNCHANGED serverFrame

\* conn, err := lis.Accept() with a connection; go s.onConn(conn, hdlr).
Accept(l, k) ==
    /\ server.serve[l] = "serving"
    /\ l \notin server.lclosed
    /\ server.conn[k] = "none"
    /\ server' = [server EXCEPT !.conn[k] = "accepted"]
    /\ UNCHANGED serverFrame

\* lis.Accept() returns the error of a closed listener: Serve returns it, and
\* the deferred trackListener(&lis, false) and lis.Close() run.
ServeReturn(l) ==
    /\ server.serve[l] = "serving"
    /\ l \in server.lclosed
    /\ server' = [server EXCEPT !.serve[l] = "returned", !.listeners = @ \ {l}]
    /\ UNCHANGED serverFrame

\* onConn: cli := NewClient(conn, handler).
onConnNewClient(k) ==
    /\ server.conn[k] = "accepted"
    /\ server' = [server EXCEPT !.conn[k] = "created", !.open = @ \cup {k}]
    /\ UNCHANGED serverFrame

\* onConn: s.trackClient(cli, true).
onConnTrack(k) ==
    /\ server.conn[k] = "created"
    /\ server' = [server EXCEPT !.conn[k] = "tracked", !.clis = @ \cup {k}]
    /\ UNCHANGED serverFrame

\* onConn returns: the deferred s.trackClient(cli, false) runs.
onConnReturn(k) ==
    /\ server.conn[k] = "tracked"
    /\ server' = [server EXCEPT !.conn[k] = "returned", !.clis = @ \ {k}]
    /\ UNCHANGED serverFrame

\* The Client of a connection terminates by itself (its peer hangs up).
ClientTerminates(k) ==
    /\ k \in server.open
    /\ server' = [server EXCEPT !.open = @ \ {k}]
    /\ UNCHANGED serverFrame

\* Server.Close, under s.mut: shutDown is set, every tracked listener and
\* every Client in s.clis is closed.
ServerClose ==
    /\ ~server.shutDown
    /\ server' = [server EXCEPT !.shutDown = TRUE,
                                 !.lclosed = @ \cup server.listeners,
                                 !.open = @ \ server.clis]
    /\ UNCHANGED serverFrame

\* -------------------------------------------------------------- the system

\* processMessages, as far as it reads frames and routes responses.
Demux ==
    \/ ReadTerminal
    \/ DemuxClose
    \/ ReadFrame
    \/ RouteResponse
    \/ Deliver
    \/ DeliverTimeout
    \/ FrameEnd

\* processMessages serving the peer's requests.
Serve ==
    \/ ReadParseError
    \/ HandleRequest
    \/ HandlerEnter
    \/ HandlerReturn

\* Task t calling Client.Invoke.
Invoke(t) ==
    \/ InvokeRegister(t)
    \/ InvokeSend(t)
    \/ InvokeReceive(t)
    \/ InvokeCancelled(t)
    \/ CancelCtx(t)

\* The owner of the Batch.
Batch ==
    \/ BatchInvoke
    \/ BatchNotify
    \/ CommitSend
    \/ CommitVisit
    \/ CommitCancelled
    \/ CommitReceive
    \/ CancelCtx(BatchTask)

\* The whole program: every task on one Client.
Next ==
    \/ \E t \in Tasks : Invoke(t)
    \/ Batch
    \/ ClientClose
    \/ Demux
    \/ Serve

Spec == Init /\ [][Next]_vars

\* encoding/json on the values and the texts of CodecInputs.
NextCodec ==
    \/ jsonMarshal
    \/ jsonUnmarshal

CodecInit == EngineInit /\ codec \in CodecInputs

CodecSpec == CodecInit /\ [][NextCodec]_vars

\* A Server with Serve calls on its listeners, the connections they accept,
\* and a Close.
NextServer ==
    \/ \E l \in Listeners : ServerServe(l) \/ ServeReturn(l) \/ \E k \in Conns : Accept(l, k)
    \/ \E k \in Conns :
            onConnNewClient(k) \/ onConnTrack(k) \/ onConnReturn(k) \/ ClientTerminates(k)
    \/ ServerClose

ServerSpec == Init /\ [][NextServer]_vars

\* ReadMessage calls on a stream the peer writes frames on.
NextRead ==
    \/ PeerWrite
    \/ NewDecoder
    \/ DecoderRefill
    \/ DecodeReturn

ReadSpec == Init /\ [][NextRead]_vars

\* The program with the user tasks that call Client.Invoke and Client.Close,
\* against a peer that sends responses.
NextCall ==
    \/ \E t \in Callers : Invoke(t)
    \/ ClientClose
    \/ Demux

CallSpec == Init /\ [][NextCall]_vars

\* The program with no user task, serving the requests of a peer.
NextServe ==
    \/ ReadTerminal
    \/ DemuxClose
    \/ ReadParseError
    \/ ReadFrame
    \/ HandleRequest
    \/ RouteResponse
    \/ FrameEnd

ServeSpec == Init /\ [][NextServe]_vars

\* The program with no user task, against a peer whose frames may fail to
\* parse.
NextInvalid ==
    \/ ReadInvalid
    \/ DemuxClose
    \/ ReadFrame
    \/ HandleRequest
    \/ RouteResponse
    \/ FrameEnd

InvalidSpec == Init /\ [][NextInvalid]_vars

\* The program serving requests with a handler that calls Invoke on the
\* Client, next to one user task that calls Invoke.
DuplexTasks == {HandlerTask, "c1"}

NextDuplex ==
    \/ \E t \in DuplexTasks : Invoke(t)
    \/ Demux
    \/ HandlerEnter
    \/ HandlerReturn

DuplexSpec == Init /\ [][NextDuplex]_vars

\* The program with the task that owns a Batch, against a peer that sends
\* responses.
NextBatch ==
    \/ Batch
    \/ Demux

BatchSpec == Init /\ [][NextBatch]_vars

\* One user task that calls Client.Invoke next to the task that owns a Batch,
\* against a peer that answers in one frame.
NextListen ==
    \/ Invoke("c1")
    \/ BatchInvoke
    \/ CommitSend
    \/ CommitVisit
    \/ CommitReceive
    \/ nread = 0 /\ ReadFrame
    \/ RouteResponse
    \/ Deliver
    \/ DeliverTimeout
    \/ FrameEnd

ListenSpec == Init /\ [][NextListen]_vars

\* The user tasks that call Client.Invoke next to the one that fills and
\* commits a Batch, as far as they take their ids and send their requests.
NextAlloc ==
    \/ \E t \in Callers : InvokeRegister(t) \/ InvokeSend(t)
    \/ BatchInvoke
    \/ BatchNotify
    \/ CommitSend

AllocSpec == Init /\ [][NextAlloc]_vars

\* A handler whose tasks call WriteMessage and WriteError, in any order and
\* at the same time, on the ResponseWriter of the request it serves.
NextWriter ==
    \/ WriterNew
    \/ \E t \in WriterTasks : WriterEnter(t) \/ WriterStore(t)

WriterSpec == Init /\ [][NextWriter]_vars

\* The tasks of one Client inside transport.SendMessage at the same time, on
\* the wsReadWriter of NewWebsocketClient.
NextWrite ==
    \E t \in Senders :
        \/ WriteLock(t)
        \/ WriteChunk(t)
        \/ WriteUnlock(t)

WriteSpec == Init /\ [][NextWrite]_vars

\* The scheduler runs every task that can take a step: the steps of Invoke
\* and of processMessages are weakly fair, and so is the error a read on a
\* closed stream returns.  What the peer sends and when a user cancels a
\* context or calls Close is not.
InvokeStep(t) ==
    \/ InvokeRegister(t)
    \/ InvokeSend(t)
    \/ InvokeReceive(t)
    \/ InvokeCancelled(t)

DemuxStep ==
    \/ StreamClosed /\ ReadTerminal
    \/ DemuxClose
    \/ RouteResponse
    \/ Deliver
    \/ DeliverTimeout
    \/ FrameEnd
    \/ HandlerReturn

FairCallSpec ==
    /\ CallSpec
    /\ \A t \in Callers : WF_vars(InvokeStep(t))
    /\ WF_vars(DemuxStep)

FairDuplexSpec ==
    /\ DuplexSpec
    /\ \A t \in DuplexTasks : WF_vars(InvokeStep(t))
    /\ WF_vars(DemuxStep)

\* A user task that calls Client.Invoke with a context that is never
\* cancelled, next to a Batch of one call that is not committed, on a stream
\* that stays open, against a peer that sends responses; every task that can
\* take a step is run.
NextDeposit ==
    \/ InvokeRegister("c1")
    \/ InvokeSend("c1")
    \/ InvokeReceive("c1")
    \/ watchers = {} /\ BatchInvoke
    \/ ReadFrame
    \/ RouteResponse
    \/ Deliver
    \/ DeliverTimeout
    \/ FrameEnd

DepositSpec == Init /\ [][NextDeposit]_vars

FairDepositSpec ==
    /\ DepositSpec
    /\ WF_vars(InvokeStep("c1"))
    /\ WF_vars(DemuxStep)

\* ------------------------------------------------------------------ claims

\* The Invoke of t returned what it made of an object it received.
Received(t) == calls[t].pc = "returned" /\ ~calls[t].resp.Response.isNil

\* C1: with any number of Invoke calls in flight and the responses arriving in
\* any order, an Invoke that returns a response's result or error returns
\* those of the response whose id is the id it registered, never those of a
\* response carrying another call's id.
C1_NoCrossTalk ==
    \A t \in Callers :
        Received(t) =>
            /\ convertID(calls[t].resp.Response.ID) = calls[t].msgID
            /\ <<calls[t].result, calls[t].err>> = InvokeResult(calls[t].resp)
            /\ \A u \in Callers \ {t} :
                calls[u].msgID # 0 =>
                    convertID(calls[t].resp.Response.ID) # calls[u].msgID

\* Two calls in flight, the response to the later one arrived first.
C1_Witness ==
    /\ calls["c1"].pc = "waiting"
    /\ Received("c2")
    /\ calls["c1"].msgID < calls["c2"].msgID

\* The response objects of the frames processMessages wrote for the last
\* frame it read.
SentResponses ==
    IF sent = <<>> THEN <<>> ELSE sent[1].Objects

\* The number of elements of seq that satisfy Test.
Count(seq, Test(_)) == Cardinality({i \in 1..Len(seq) : Test(seq[i])})

\* processMessages is through with the frame whose requests are in reqs.
FrameHandled == pc \in {"read", "exited"} /\ reqs # <<>>

\* C2: for an inbound notification (a request without id) the demultiplexer
\* adds no response object to the outgoing frame and writes nothing for it,
\* whatever the handler does.
C2_NoResponseForNotification ==
    /\ \A i \in 1..Len(resp) : ~IsUndefined(resp[i].Response.ID)
    /\ \A i \in 1..Len(SentResponses) : ~IsUndefined(SentResponses[i].Response.ID)
    /\ Len(resp) <= Count(reqs, LAMBDA r : ~r.Notification)

\* C3: for every inbound call (a request with a defined id) whose handler calls
\* WriteMessage or WriteError, the engine sends exactly one response object,
\* carrying the id of the request.
C3_OneResponsePerCall ==
    FrameHandled =>
        \A id \in RequestIDs :
            LET answers == Count(SentResponses, LAMBDA o : o.Response.ID = id)
                wrote == Count(reqs, LAMBDA r :
                            ~r.Notification /\ r.ID = id /\ r.act \in {"msg", "err"})
                asked == Count(reqs, LAMBDA r : ~r.Notification /\ r.ID = id)
            IN  wrote > 0 => wrote <= answers /\ answers <= asked

\* C4: when the handler of an inbound call returns without calling
\* WriteMessage or WriteError, the engine sends a success response (an empty or
\* null result, no error) with the request's id, and the demultiplexer goes on
\* reading.
C4_DefaultResponse ==
    FrameHandled =>
        \A i \in 1..Len(reqs) :
            (~reqs[i].Notification /\ reqs[i].act = "none") =>
                /\ pc = "read"
                /\ \E j \in 1..Len(SentResponses) :
                    /\ SentResponses[j].Response.ID = reqs[i].ID
                    /\ SentResponses[j].Response.Error.isNil
                    /\ SentResponses[j].Response.Result \in {NilRaw, EmptyRaw, "null"}

\* C5: when the transport terminates (a terminal read error, also the one a
\* Close brings about) while an Invoke waits for its response, that Invoke
\* eventually returns, also when its context is never cancelled.
C5_PendingInvokeAborted ==
    \A t \in Callers :
        (pc = "closing" /\ calls[t].pc = "waiting") ~> (calls[t].pc = "returned")

\* C6: a handler that calls Invoke on the Client it is serving does not
\* deadlock: its Invoke returns.
C6_HandlerInvokeReturns ==
    (calls[HandlerTask].pc = "waiting") ~> (calls[HandlerTask].pc = "returned")

\* C7: on a terminal read error the demultiplexer closes the transport and
\* exits, and Done() is closed, exactly once; Done() is never closed while the
\* demultiplexer is still running.
C7_DoneWhenExited ==
    /\ done <=> pc = "exited"
    /\ doneCloses = IF done THEN 1 ELSE 0
    /\ pc = "closing" => ENABLED DemuxClose
    /\ (pc = "exited" /\ exitCause = "read" /\ isCloser) => StreamClosed

\* processMessages has returned on a terminal read error, nobody else having
\* closed the Client.
C7_Witness ==
    /\ pc = "exited"
    /\ exitCause = "read"
    /\ done
    /\ isCloser
    /\ closes = 0

Queued == {convertID(bmsg[i].Request.ID) : i \in {j \in 1..Len(bmsg) : ~bmsg[j].Request.Notification}}

\* C9: Commit, once it has sent the batch, returns the first error among its
\* queued calls: a non-nil error if a queued call received an error response
\* (or was cancelled), nil only when every queued call succeeded.
C9_CommitReturnsError ==
    (bpc = "done" /\ firstError # SendFailed) =>
        (firstError.isNil <=>
            \A id \in Queued :
                ~brecv[id].Response.isNil /\ brecv[id].Response.Error.isNil)

\* C10: after Commit returns, the json.RawMessage of every queued Invoke whose
\* response carried a result holds that result.
C10_CommitFillsResults ==
    bpc = "done" =>
        \A id \in Queued :
            (~brecv[id].Response.isNil /\ brecv[id].Response.Error.isNil) =>
                slots[id] = brecv[id].Response.Result

\* C11: when the context passed to Commit is cancelled while queued calls are
\* unanswered, Commit stops waiting, the entries of all its queued calls are
\* gone from listeners, and it returns the context's (non-nil) error.
C11_CommitCancelled ==
    (bpc = "done" /\ ctx[BatchTask] /\ \E id \in Queued : brecv[id].Response.isNil) =>
        /\ Queued \cap listeners = {}
        /\ watchers = {}
        /\ firstError = CtxCanceled

\* The calls (requests with an id) among the requests of the last frame.
CallsHandled == SelectSeq(reqs, LAMBDA r : ~r.Notification)

\* C12: for an inbound frame the demultiplexer sends at most one frame; it
\* holds exactly the responses to the frame's calls, in their order, and has
\* the Batched flag of the inbound frame; nothing is sent when the frame had
\* no call.
C12_OneFrameOut ==
    /\ Len(sent) <= 1
    /\ FrameHandled =>
        IF CallsHandled = <<>>
        THEN sent = <<>>
        ELSE /\ Len(sent) = 1
             /\ sent[1].Batched = reqs[1].Batched
             /\ Len(sent[1].Objects) = Len(CallsHandled)
             /\ \A i \in 1..Len(CallsHandled) :
                    sent[1].Objects[i].Response.ID = CallsHandled[i].ID

\* The frame m is the answer to a parse error: an error response with
\* ErrorInvalidRequest (no handler of the model writes that code).
IsParseErrorAnswer(m) ==
    /\ Len(m.Objects) >= 1
    /\ ~m.Objects[1].Response.isNil
    /\ ~m.Objects[1].Response.Error.isNil
    /\ m.Objects[1].Response.Error.Code = ErrorInvalidRequest

C14_FramesWhole ==
    \A i \in 1..Len(wire) :
        /\ wire[i].k > 1 =>
                /\ wire[i - 1].by = wire[i].by
                /\ wire[i - 1].n = wire[i].n
                /\ wire[i - 1].k = wire[i].k - 1
        /\ (wire[i].k = 1 /\ i > 1) => wire[i - 1].k = MaxChunks
        /\ (wire[i].k < MaxChunks /\ i = Len(wire)) =>
                (wmtx = wire[i].by /\ writes[wire[i].by].pc = "writing")

\* Two tasks were in SendMessage at the same time: one has written its whole
\* frame while the other waited for the mutex, and the other is now writing.
C14_Witness ==
    /\ Len(wire) = MaxChunks + 1
    /\ wire[1].by = "demux"
    /\ wire[Len(wire)].by = "c1"
    /\ writes[BatchTask].pc = "idle"

\* C15: Close is idempotent: over any sequence of Close calls, the one
\* processMessages makes on a terminal read error included, the underlying
\* stream is closed at most once.
C15_StreamClosedOnce == rwCloses <= 1

\* C16: after Client.Close was called the demultiplexer eventually exits and
\* Done() is eventually closed, whether or not the io.ReadWriter is a Closer.
C16_CloseEndsDemux == (closes > 0) ~> (done /\ pc = "exited")

\* The ids of the calls queued in the Batch, in the order they were added.
QueuedSeq ==
    LET cs == SelectSeq(bmsg, LAMBDA o : ~o.Request.Notification)
    IN  [i \in 1..Len(cs) |-> convertID(cs[i].Request.ID)]

\* The ids the Client has handed out to calls.
HandedOut == {calls[t].msgID : t \in {u \in Tasks : calls[u].msgID # 0}} \cup Queued

\* C17: the ids handed out to calls, by Client.Invoke and Batch.Invoke alike,
\* are pairwise distinct and strictly increasing in the order they were
\* handed out, starting at 1.
C17_IdsIncreasing ==
    /\ [](/\ HandedOut = 1..nextID
          /\ \A t, u \in Tasks :
                (t # u /\ calls[t].msgID # 0) => calls[t].msgID # calls[u].msgID
          /\ \A t \in Tasks : calls[t].msgID # 0 => calls[t].msgID \notin Queued
          /\ \A i, j \in 1..Len(QueuedSeq) : i < j => QueuedSeq[i] < QueuedSeq[j])
    /\ [][HandedOut' # HandedOut =>
            \E id \in 1..NumIDs :
                /\ HandedOut' = HandedOut \cup {id}
                /\ \A j \in HandedOut : j < id]_vars

\* Client.Invoke and Batch.Invoke were called in turns by three tasks.
C17_Witness ==
    /\ QueuedSeq = <<1, 3>>
    /\ calls["c1"].msgID = 4
    /\ calls["c2"].msgID = 2

\* What the calls made on writer so far have returned, per task in order.
Returned(t) == wcalls[t].rets

\* The calls that got past the swap of set: returned ones and running ones.
PastSwap ==
    Cardinality({<<t, i>> \in WriterTasks \X (1..MaxWrites) :
                    /\ i <= Len(Returned(t))
                    /\ Returned(t)[i].err \in {NoErr, ErrMarshal}})
        + Cardinality({t \in WriterTasks : wcalls[t].pc = "store"})

\* A call of task t returns in this step.
Returns(t) == Len(wcalls'[t].rets) = Len(wcalls[t].rets) + 1

C19_NotificationRefused ==
    (writer # NoWriter /\ writer.notification) =>
        /\ ~writer.set
        /\ writer.resp.Result = NilRaw
        /\ writer.resp.Error.isNil
        /\ IsUndefined(writer.resp.ID)
        /\ \A t \in WriterTasks :
                /\ wcalls[t].pc = "idle"
                /\ \A i \in 1..Len(Returned(t)) : Returned(t)[i].err = ErrNotification

\* Both a WriteMessage and a WriteError were called on a notification's
\* ResponseWriter.
C19_Witness ==
    /\ writer.notification
    /\ Len(Returned("w1")) >= 1
    /\ Returned("w1")[1].op = "WriteMessage"
    /\ Len(Returned("w2")) >= 1
    /\ Returned("w2")[1].op = "WriteError"

\* C20: Invoke returns the raw result with a nil error when the response it
\* was handed carries a result, and the response's Error object (code,
\* message, data) with no result when it carries an error; the "sum" of
\* [3,5,7] comes back as the raw JSON 15.
C20_InvokeReturn ==
    \A t \in Callers :
        Received(t) =>
            LET r == calls[t].resp.Response
            IN  IF r.Error.isNil
                THEN /\ calls[t].result = r.Result
                     /\ calls[t].result = "15"
                     /\ calls[t].err.isNil
                ELSE /\ calls[t].result = NilRaw
                     /\ ~calls[t].err.isNil
                     /\ calls[t].err.Code = r.Error.Code
                     /\ calls[t].err.Message = r.Error.Message
                     /\ calls[t].err.Data = r.Error.Data

\* One Invoke has returned the sum, the other the peer's Error with its data.
C20_Witness ==
    /\ Received("c1")
    /\ calls["c1"].result = "15"
    /\ calls["c1"].err.isNil
    /\ Received("c2")
    /\ calls["c2"].result = NilRaw
    /\ calls["c2"].err = [isNil |-> FALSE, Code |-> ErrorInternal,
                          Message |-> "boom", Data |-> "[3]"]

\* The request of reqs names a method no handler is registered for.
Unregistered(r) == r.act \in {"notfound", "default"}

\* The response a call to an unregistered method gets.
NotFoundResponse(r) ==
    txResponse(r.ID, EmptyRaw, MkError(ErrorMethodNotFound, NotFoundText(r.Method)))

\* C21: a call to a method without a registered handler (ServeMux, Router or
\* DefaultHandler) gets a response with error code -32601, the message
\* "method <name> not found" and the call's id, and a frame of that one call is
\* answered by exactly that response; for a notification to an unregistered
\* method the handlers record neither error nor result and nothing goes out on
\* the stream.
C21_MethodNotFound ==
    /\ pc = "objects" =>
        \A i \in 1..Len(reqs) :
            Unregistered(reqs[i]) =>
                /\ i <= Len(resp)
                /\ IF reqs[i].Notification
                   THEN /\ resp[i].Response.Error = NilError
                        /\ resp[i].Response.Result = EmptyRaw
                   ELSE /\ resp[i].Response = NotFoundResponse(reqs[i])
                        /\ resp[i].Response.Error.Code = -32601
                        /\ resp[i].Response.ID = reqs[i].ID
    /\ (FrameHandled /\ Len(reqs) = 1 /\ Unregistered(reqs[1])) =>
            IF reqs[1].Notification
            THEN sent = <<>>
            ELSE /\ pc = "read"
                 /\ sent = <<txMessage(reqs[1].Batched,
                                       <<ResponseObject(NotFoundResponse(reqs[1]))>>)>>

C21_Witness ==
    /\ FrameHandled
    /\ Len(reqs) = 1
    /\ reqs[1].act = "notfound"
    /\ reqs[1].Method = "ping"
    /\ reqs[1].ID = newNumberID(7)
    /\ SentResponses # <<>>
    /\ SentResponses[1].Response.Error.Code = ErrorMethodNotFound
    /\ SentResponses[1].Response.Error.Message = "method ping not found"

\* A Request as the codec is meant to see it: a notification exactly when its
\* id is undefined, its params absent (nil) or a JSON text.
WellFormedRequest(r) == r.Notification = IsUndefined(r.ID) /\ r.Params # EmptyRaw

\* C22: for every Request r, with params or without, parsing the bytes that
\* marshal makes of r gives r back; the bytes of a call with a defined id have
\* "jsonrpc":"2.0" and an id member, the bytes of a notification have no id
\* member and parse as a notification with the undefined id.
C22_RequestRoundTrip ==
    (codec.kind = "request" /\ codec.from = "value" /\ WellFormedRequest(codec.val.val)) =>
        /\ codec.stage \in {"bytes", "back", "again"} =>
            /\ ~codec.bytes.err
            /\ codec.bytes.val.kind = "object"
            /\ "jsonrpc" \in DOMAIN codec.bytes.val.members
            /\ codec.bytes.val.members["jsonrpc"] = JString("2.0")
            /\ ("id" \in DOMAIN codec.bytes.val.members) = ~codec.val.val.Notification
        /\ codec.stage \in {"back", "again"} =>
            /\ ~codec.back.err
            /\ codec.back.val = codec.val.val
            /\ codec.val.val.Notification =>
                    codec.back.val.Notification /\ IsUndefined(codec.back.val.ID)

\* The raw message holds a JSON text.
IsSet(raw) == raw \notin {NilRaw, EmptyRaw}

\* C23: a Response with a result and no error marshals to bytes with the
\* result and, under a defined id, the id member (null for the Null id); a
\* Response with an error and no result marshals to bytes whose error member
\* is the error object with its integer code; both parse back to the Response
\* they were made of.  A Response with the undefined id marshals without an
\* id member.
C23_ResponseRoundTrip ==
    (codec.kind = "response" /\ codec.from = "value") =>
        LET r == codec.val.val
            hasResult == IsSet(r.Result) /\ r.Error.isNil
            hasError == r.Result = NilRaw /\ ~r.Error.isNil
            o == codec.bytes.val.members
        IN  /\ (codec.stage \in {"bytes", "back", "again"} /\ (hasResult \/ hasError)) =>
                /\ ~codec.bytes.err
                /\ codec.bytes.val.kind = "object"
                /\ o["jsonrpc"] = JString("2.0")
                /\ ("id" \in DOMAIN o) = ~IsUndefined(r.ID)
                /\ r.ID = newNullID => o["id"] = JNull
                /\ hasResult =>
                    /\ DOMAIN o \subseteq {"jsonrpc", "result", "id"}
                    /\ RawMessageUnmarshalJSON(o["result"]) = r.Result
                /\ hasError =>
                    /\ DOMAIN o \subseteq {"jsonrpc", "error", "id"}
                    /\ o["error"].kind = "object"
                    /\ o["error"].members["code"] = JNumber(Itoa(r.Error.Code))
                    /\ o["error"].members["message"] = JString(r.Error.Message)
            /\ (codec.stage \in {"back", "again"} /\ (hasResult \/ hasError)) =>
                /\ ~codec.back.err
                /\ codec.back.val = r
            /\ (codec.stage \in {"bytes", "back", "again"} /\ ~codec.bytes.err
                    /\ IsUndefined(r.ID)) => "id" \notin DOMAIN o

C23_Witness ==
    /\ codec.kind = "response"
    /\ codec.from = "value"
    /\ codec.stage = "back"
    /\ codec.val.val.ID = newNumberID(7)
    /\ codec.val.val.Error.Code = ErrorInternal
    /\ codec.val.val.Error.Data = "[3]"
    /\ codec.bytes.val.members["error"].members["code"] = JNumber("-32603")
    /\ codec.back = codec.val

\* C24: a Response with both a result and an error, or with neither, is
\* refused by marshal, and JSON with both a result member and an error object,
\* or with neither, is refused by parse; every Response that marshal or parse
\* accepts has exactly one of result and error.
C24_ResultXorError ==
    /\ (codec.kind = "response" /\ codec.from = "value"
            /\ codec.stage \in {"bytes", "back", "again"}) =>
        LET r == codec.val.val
        IN  /\ (IsSet(r.Result) = ~r.Error.isNil) => codec.bytes.err
            /\ ~codec.bytes.err => IsSet(r.Result) # ~r.Error.isNil
    /\ (codec.kind = "response" /\ codec.from = "bytes"
            /\ codec.stage \in {"back", "again"} /\ codec.bytes.val.kind = "object") =>
        LET o == codec.bytes.val.members
            hasResult == "result" \in DOMAIN o
            hasError == "error" \in DOMAIN o /\ o["error"] # JNull
        IN  /\ (hasResult = hasError) => codec.back.err
            /\ ~codec.back.err =>
                    IsSet(codec.back.val.Result) # ~codec.back.val.Error.isNil

C24_Witness ==
    /\ codec.kind = "response"
    /\ codec.from = "bytes"
    /\ codec.stage = "back"
    /\ codec.bytes.val.kind = "object"
    /\ DOMAIN codec.bytes.val.members = {"jsonrpc", "id", "result", "error"}
    /\ codec.bytes.val.members["jsonrpc"] = JString("2.0")
    /\ codec.bytes.val.members["id"] = JNumber("7")
    /\ codec.bytes.val.members["error"] # JNull
    /\ codec.back.err

\* C25: parsing a Message refuses the empty batch [], so that the
\* demultiplexer never has an empty batch to process.
C25_EmptyBatchRejected ==
    (codec.kind = "message" /\ codec.from = "bytes" /\ codec.stage \in {"back", "again"}
        /\ codec.bytes.val = JArray(<<>>)) => codec.back.err

\* The keys of the two shapes of an Object.
RequestKeys == {"jsonrpc", "method", "params", "id"}
ResponseKeys == {"jsonrpc", "result", "error", "id"}

\* C26: parsing an Object refuses a JSON object that has a key of neither
\* shape and one that has a key only requests have next to a key only
\* responses have; every Object the parse accepts has exactly one of its
\* Request and Response set.
C26_ObjectOneArm ==
    (codec.kind = "object" /\ codec.from = "bytes" /\ codec.stage \in {"back", "again"}) =>
        /\ codec.bytes.val.kind = "object" =>
            LET keys == DOMAIN codec.bytes.val.members
            IN  /\ ~(keys \subseteq RequestKeys \cup ResponseKeys) => codec.back.err
                /\ (keys \ ResponseKeys # {} /\ keys \ RequestKeys # {}) => codec.back.err
        /\ ~codec.back.err =>
                codec.back.val.Request.isNil # codec.back.val.Response.isNil

C26_Witness ==
    /\ codec.kind = "object"
    /\ codec.from = "bytes"
    /\ codec.stage = "back"
    /\ codec.bytes.val.kind = "object"
    /\ DOMAIN codec.bytes.val.members = {"jsonrpc", "id", "method", "result"}
    /\ codec.bytes.val.members["jsonrpc"] = JString("2.0")
    /\ codec.bytes.val.members["id"] = JNumber("7")
    /\ codec.back.err

\* C27: parsing an id maps JSON null to the Null id, a JSON integer to a
\* Number id and a JSON string to a String id, and refuses floats and
\* booleans; marshalling a parsed id gives the JSON value it was parsed from.
C27_IdCodec ==
    (codec.kind = "id" /\ codec.from = "bytes" /\ codec.stage \in {"back", "again"}) =>
        LET v == codec.bytes.val
        IN  /\ v.kind = "null" => codec.back = Ok(newNullID)
            /\ (v.kind = "number" /\ IsIntText(v.text)) =>
                    /\ codec.back = Ok(newNumberID(Atoi(v.text)))
                    /\ codec.back.val.ty = idTypeNumber
                    /\ codec.back.val.value = v.text
            /\ v.kind = "string" => codec.back = Ok(newStringID(v.text))
            /\ (v.kind = "number" /\ ~IsIntText(v.text)) => codec.back.err
            /\ v.kind = "true" => codec.back.err
            /\ ~codec.back.err => ~IsUndefined(codec.back.val)
            /\ codec.stage = "again" => codec.again = Ok(v)

C27_Witness ==
    /\ codec.kind = "id"
    /\ codec.from = "bytes"
    /\ codec.stage = "again"
    /\ codec.bytes.val = JNumber("7")
    /\ codec.back.val = newNumberID(7)
    /\ codec.again.val = JNumber("7")

\* C28: the demultiplexer never inserts into or deletes from listeners: an
\* entry is inserted only by Client.Invoke and Batch.Invoke, for the id they
\* have just taken, and deleted only by Client.Invoke on its return and by
\* Batch.Commit for the key its Range is at.
C28_ListenersOwnedByCallers ==
    [][/\ demuxVars' # demuxVars => listeners' = listeners
       /\ listeners' \ listeners # {} =>
            /\ listeners' \ listeners = {nextID'}
            /\ nextID' = Inc(nextID)
            /\ listeners \subseteq listeners'
            /\ \/ \E t \in Tasks :
                    /\ calls[t].pc = "idle" /\ calls'[t].pc = "registered"
                    /\ calls'[t].msgID = nextID'
               \/ /\ bpc = "building" /\ Len(bmsg') = Len(bmsg) + 1
                  /\ convertID(bmsg'[Len(bmsg')].Request.ID) = nextID'
       /\ listeners \ listeners' # {} =>
            /\ listeners' \subseteq listeners
            /\ \/ \E t \in Tasks :
                    /\ calls[t].pc \in {"registered", "waiting"}
                    /\ calls'[t].pc = "returned"
                    /\ listeners \ listeners' = {calls[t].msgID}
               \/ /\ bpc = "select"
                  /\ listeners \ listeners' = {bkey}
      ]_vars

\* The demultiplexer has handed a response to the channel of the Invoke and
\* one to the channel of a queued call, and both entries are where their
\* callers put them.
C28_Witness ==
    /\ calls["c1"].pc = "waiting"
    /\ calls["c1"].msgID \in listeners
    /\ chans[calls["c1"].msgID] # <<>>
    /\ bpc = "range"
    /\ \E k \in Queued : k \in listeners /\ chans[k] # <<>>

\* C29: the caller always unregisters: after Client.Invoke has returned, with
\* whatever outcome, and after Batch.Commit has returned (success, error
\* response, cancellation, or failure to send the batch frame), listeners has
\* no entry of that call or of that batch.
C29_CallerUnregisters ==
    /\ \A t \in Tasks : calls[t].pc = "returned" => calls[t].msgID \notin listeners
    /\ bpc = "done" => Queued \cap listeners = {}

\* C30: the entry in listeners is there before the request is handed to the
\* transport: when Client.Invoke sends its request its id is registered, when
\* Batch.Commit sends the batch the id of every queued call is registered, and
\* a call whose request is out and that has not returned stays registered, so
\* that a response to it finds its listener.
C30_RegisteredBeforeSend ==
    /\ [](/\ \A t \in Tasks : calls[t].pc = "waiting" => calls[t].msgID \in listeners
          /\ bpc \in {"range", "select"} => watchers \subseteq listeners)
    /\ [][/\ \A t \in Tasks :
                (calls[t].pc = "registered" /\ calls'[t].pc # "registered") =>
                    calls[t].msgID \in listeners
          /\ (bpc = "building" /\ bpc' # "building") =>
                /\ Queued \subseteq listeners
                /\ watchers = Queued
          /\ (pc = "objects" /\ idx' = idx + 1 /\ late' # late) =>
                \A t \in Tasks :
                    calls[t].pc = "waiting" => calls[t].msgID \notin late'
         ]_vars

\* The request of the Invoke and the batch of two calls are out, and every
\* one of the three ids has its listener.
C30_Witness ==
    /\ calls["c1"].pc = "waiting"
    /\ bpc = "range"
    /\ Cardinality(Queued) = 2
    /\ Queued \cup {calls["c1"].msgID} = listeners
    /\ nread = 0

\* C31: a deposit never blocks the demultiplexer for ever.  A deposit into a
\* slot that stays full (a duplicate response for an id whose capacity-1
\* channel still holds the first) is given up: the demultiplexer leaves the
\* deposit, goes on with the next object of the frame and gets back to reading
\* the next frame; giving up changes no slot, no listener and no call.
C31_DepositNeverBlocks ==
    /\ (pc = "deliver") ~> (pc = "read")
    /\ [][(pc = "deliver" /\ pc' # "deliver") =>
            /\ pc' = "objects"
            /\ idx' = idx + 1
            /\ listeners' = listeners
            /\ calls' = calls
            /\ \A i \in 1..NumIDs : i # lis => chans'[i] = chans[i]
            /\ Len(chans[lis]) = 1 => chans' = chans]_vars

\* The demultiplexer is at the deposit of a second response for an id of the
\* Batch, whose slot still holds the first and is not being read, while c1
\* waits for its own response.
C31_Witness ==
    /\ pc = "deliver"
    /\ lis \in watchers
    /\ Len(chans[lis]) = 1
    /\ calls["c1"].pc = "waiting"

\* C32: a response whose id has no entry in listeners (never registered, or
\* unregistered already) is dropped and changes no slot: a slot is filled only
\* by the deposit of a response that carries its id, while its entry exists.
\* Of several responses for one registered id the slot keeps the first until
\* the caller takes it, and an Invoke takes one object, once: the first.
C32_OneResponsePerCall ==
    /\ [](pc = "deliver" => /\ lis = convertID(cur.Response.ID)
                            /\ lis \in 1..nextID)
    /\ [][/\ \A i \in 1..NumIDs :
                /\ (chans[i] = <<>> /\ chans'[i] # <<>>) =>
                        /\ pc = "deliver"
                        /\ lis = i
                        /\ i \in listeners
                        /\ chans'[i] = <<cur>>
                /\ chans[i] # <<>> => chans'[i] \in {chans[i], <<>>}
          /\ (pc = "objects" /\ pc' = "objects" /\ idx' = idx + 1) =>
                UNCHANGED <<chans, listeners, calls>>
          /\ \A t \in Callers :
                /\ calls'[t].resp # calls[t].resp =>
                        /\ calls[t].pc = "waiting"
                        /\ calls'[t].pc = "returned"
                        /\ calls'[t].resp = Head(chans[calls[t].msgID])
                /\ calls[t].pc = "returned" => calls'[t] = calls[t]]_vars

\* A second, different response for the id of c1 is at the deposit while the
\* slot of c1 holds the first; the object before it in the frame was a response
\* for the id of c2, which had returned, and was dropped.
C32_Witness ==
    /\ pc = "deliver"
    /\ lis = calls["c1"].msgID
    /\ calls["c1"].pc = "waiting"
    /\ Len(chans[lis]) = 1
    /\ chans[lis][1] # cur
    /\ calls["c2"].pc = "returned"
    /\ late = {calls["c2"].msgID}

\* C33: a response whose id is null or undefined never reaches a deposit, is
\* in no slot and is never what an Invoke or a Commit received; the step that
\* drops it changes no slot, listener, call or result of the Batch, and the
\* demultiplexer is at the next object of the frame.
C33_NilIdDiscarded ==
    /\ [](/\ pc = "deliver" => ~IDIsNil(cur.Response.ID)
          /\ \A i \in 1..NumIDs :
                /\ chans[i] # <<>> => ~IDIsNil(Head(chans[i]).Response.ID)
                /\ brecv[i] # NoObject => ~IDIsNil(brecv[i].Response.ID)
          /\ \A t \in Tasks : Received(t) => ~IDIsNil(calls[t].resp.Response.ID))
    /\ [][(-1 \in late' /\ late' # late) =>
            /\ pc' = "objects"
            /\ idx' = idx + 1
            /\ UNCHANGED <<chans, listeners, calls, slots, brecv, firstError, bpc>>]_vars

\* A response without id was dropped from the frame being handled while an
\* Invoke and a Commit wait for their responses, with objects still to come.
C33_Witness ==
    /\ -1 \in late
    /\ calls["c1"].pc = "waiting"
    /\ bpc = "select"
    /\ pc = "objects"
    /\ idx < batch.n

\* C34: every ReadMessage call returns the next frame the peer wrote and
\* leaves the stream at the start of the frame after it: the calls return the
\* frames in order, none lost, however the reads of the stream cut the bytes.
C34_OneValuePerRead ==
    /\ \A i \in 1..Len(rstream.msgs) : rstream.msgs[i] = i
    /\ ~rstream.decoding =>
            rstream.rw = FramesBytes(Len(rstream.msgs) + 1, rstream.wrote)

\* C35: a frame that fails to parse, malformed JSON or well-formed JSON that
\* is no request, response or batch, is recoverable: the demultiplexer sends
\* one error response that carries no request id and goes on reading; it does
\* not go on to close and exit.
C35_ParseFailureRecoverable ==
    [][(pc = "read" /\ nread' = nread + 1 /\ pc' # "objects") =>
            /\ pc' = "read"
            /\ Len(sent') = 1
            /\ IsParseErrorAnswer(sent'[1])
            /\ IDIsNil(sent'[1].Objects[1].Response.ID)]_vars

\* C36: whenever Done() is closed the demultiplexer has called Close on the
\* transport, on every path by which it exits, so that a stream that can be
\* closed is closed.
C36_DoneImpliesClosed ==
    done => (isCloser => rwCloses > 0)

\* C37: a WriteMessage that fails because its value cannot be marshalled
\* leaves the ResponseWriter as it was: as long as no call on the writer of a
\* call has succeeded or is under way the written flag is unset and the
\* response empty, so that the next WriteError or WriteMessage gets through.
C37_FailedWriteLeavesWriter ==
    (/\ writer # NoWriter
     /\ ~writer.notification
     /\ \A t \in WriterTasks :
            /\ wcalls[t].pc = "idle"
            /\ \A i \in 1..Len(Returned(t)) : Returned(t)[i].err # NoErr)
        => /\ ~writer.set
           /\ writer.resp.Result = NilRaw
           /\ writer.resp.Error.isNil

Classes(v) ==
    Cardinality({p \in {"IsUndefined", "IsNull", "IsString", "IsNumber"} :
                    \/ p = "IsUndefined" /\ IsUndefined(v)
                    \/ p = "IsNull" /\ IsNull(v)
                    \/ p = "IsString" /\ IsString(v)
                    \/ p = "IsNumber" /\ IsNumber(v)})

\* C39: of every id, built by one of the four constructors and marshalled, or
\* made by parsing (an id, or the id of a parsed request or response), exactly
\* one of IsUndefined, IsNull, IsString, IsNumber holds; an undefined id is
\* not reported as null.
C39_IdClassesPartition ==
    /\ (codec.kind = "id" /\ codec.from = "value" /\ codec.stage # "value") =>
            Classes(codec.val.val) = 1
    /\ (codec.kind = "id" /\ codec.stage \in {"back", "again"} /\ ~codec.back.err) =>
            Classes(codec.back.val) = 1
    /\ (/\ codec.kind \in {"request", "response"}
        /\ codec.stage \in {"back", "again"}
        /\ ~codec.back.err) =>
            /\ Classes(codec.back.val.ID) = 1
            /\ IsUndefined(codec.back.val.ID) => ~IsNull(codec.back.val.ID)

\* C40: a Client the Server made for an accepted connection is in the
\* Server's tracked set for as long as it is open (from the trackClient call
\* of onConn on), and Server.Close closes every such Client that is still
\* open; a Serve call made after Close returns "server closed" and accepts no
\* connection.
C40_ServerCloseClosesClients ==
    /\ [](\A k \in server.open : server.conn[k] # "created" => k \in server.clis)
    /\ [][/\ (~server.shutDown /\ server'.shutDown) =>
                \A k \in server.open :
                    server.conn[k] # "created" => k \notin server'.open
          /\ \A l \in Listeners :
                (server.shutDown /\ server.serve[l] = "idle" /\ server'.serve[l] # "idle") =>
                    /\ server'.serve[l] = "refused"
                    /\ server'.conn = server.conn]_vars

============================================================================
